---- MODULE Spec2Model ----
(***************************************************************************)
(* Gateway link and OTA engine of backend_api_server.py.                   *)
(*                                                                         *)
(* The program keeps its state in module globals (nodes, ota_history) and  *)
(* in one GatewayConnection object (connected, running, ota_sessions).     *)
(* Three kinds of thread touch that state without any lock:                *)
(*   - the link-reading thread (read_loop), which handles inbound frames   *)
(*     one after the other;                                                *)
(*   - auto-OTA worker threads (auto_ota_worker), one per accepted         *)
(*     ota_check_forward;                                                  *)
(*   - request threads running the manual trigger (ota_update_core).       *)
(* A frame handler is one action.  A trigger is a sequence of actions, one *)
(* per access to the shared state, so that the reader and other triggers   *)
(* interleave with it as the threads of the program do.                    *)
(***************************************************************************)
EXTENDS Integers, Sequences, FiniteSets, TLC

\* ------------------------------------------------------------------ bounds
\* Stand-in for the 1024-byte chunk_size of a session (lines 370, 656).
ChunkSize == 2
\* Largest idx a node puts in ota_next.
MaxIdx == 2
\* Longest firmware image of the chunking specification.
MaxFwLen == 5

\* Stand-in for AUTO_OTA_COOLDOWN = 300 (line 52), in clock ticks.
AUTO_OTA_COOLDOWN == 2
\* Stand-in for the 300 seconds a fetched manifest is reused (line 65).
ManifestTtl == 2
\* How many ticks the clock advances in a run.
MaxTicks == 3
\* Most components a dotted version has.
MaxParts == 3
\* Longest run of bytes a node puts on the link in the framing specification.
MaxStream == 4

NodeIds == {1, 2}
\* Trigger threads (auto workers and manual requests) that may run in all:
\* two, so that every pair of triggers meets in every interleaving.
Workers == {1, 2}
\* Versions a trigger may offer, and what a node may report in new_version
\* ("" is an absent new_version).
FwVersions == {"2.1.0", "2.2.0"}
\* The version the manifest announces, which is what an auto trigger offers.
ManifestVersions == {"2.1.0"}
NewVersions == {"", "2.1.0"}
\* fw_version of a node that asks for an update.
ReportedFw == "2.0.0"
\* Byte values firmware images are made of.
Bytes == {0, 77, 255}

\* The firmware file of a version: one image that is not a multiple of the
\* chunk size and one that is longer.
FirmwareOf(v) == IF v = "2.1.0" THEN <<77, 0, 255>> ELSE <<255, 77, 0, 0>>

Min(a, b) == IF a < b THEN a ELSE b
Max(a, b) == IF a > b THEN a ELSE b

VARIABLES
    connected,     \* GatewayConnection.connected
    running,       \* GatewayConnection.running (the read loop's condition)
    ota_sessions,  \* GatewayConnection.ota_sessions: the (key, value) pairs of the dict
    nodes,         \* global nodes: list of node records
    ota_history,   \* global ota_history: list of history entries
    workers,       \* the trigger threads: position and locals of each
    accepted,      \* node ids whose current session has had an ota_accept handled
    last,          \* the step just taken: operation, node, and what it found
    out,           \* send_command calls of the step just taken, with each result
    emitted,       \* socketio events of the step just taken
    rt,            \* chunking specification: the receiving node's side
    AUTO_OTA_ENABLED,     \* global AUTO_OTA_ENABLED
    last_auto_ota,        \* global last_auto_ota: node id -> timestamp, 0 for no entry
    manifest_cache,       \* global manifest_cache
    manifest_last_fetch,  \* global manifest_last_fetch
    now,           \* time.time()
    temp_files,    \* temporary files that exist, each named by the thread that made it
    lookup,        \* the fetch_manifest call of the step just taken, and its answer
    started_at,    \* node id -> clock reading of its last check that started a worker
    wire,          \* end-to-end specification: the frames written to the link, in
                   \* order, and how many of them the node has answered
    cv,            \* version comparison specification: arguments and result
    fr             \* framing specification: the bytes on the link still to be read,
                   \* read_loop's buffer, and the lines dispatched so far

\* The auto-update policy's state, and the state of the side specifications.
policy == <<AUTO_OTA_ENABLED, last_auto_ota, manifest_cache, manifest_last_fetch,
            now, lookup, started_at>>
side == <<wire, cv, fr>>

vars == <<connected, running, ota_sessions, nodes, ota_history, workers,
          accepted, last, out, emitted, rt, policy, temp_files, side>>

\* ------------------------------------------------------- dict of sessions
\* A dict is its set of (key, value) pairs; a session record carries its key
\* in the field "node".
HasSession(n) == \E s \in ota_sessions : s.node = n
SessionOf(n) == CHOOSE s \in ota_sessions : s.node = n

\* d[key] = value: the binding of the key, if any, is replaced.
DictSetNoReplace(d, s) == d \cup {s}
DictSet(d, s) == {t \in d : t.node # s.node} \cup {s}

\* del d[key] (the caller has checked, or catches, a missing key).
DictDel(d, n) == {t \in d : t.node # n}

\* ------------------------------------------------------------- nodes list
\* next((n for n in nodes if n['id'] == node_id), None): index of the first
\* match, 0 for None.
FindNode(ns, id) ==
    IF \E i \in 1..Len(ns) : ns[i].id = id
    THEN CHOOSE i \in 1..Len(ns) :
            ns[i].id = id /\ \A j \in 1..(i-1) : ns[j].id # id
    ELSE 0

\* ---------------------------------------------------------------- slicing
\* Python's s[a:b] on a bytes object (0-based, negative indices count from
\* the end, out-of-range indices are clamped).
PyIndex(i, n) == IF i < 0 THEN Max(i + n, 0) ELSE Min(i, n)

PySliceInclusive(s, a, b) ==
    LET lo == PyIndex(a, Len(s))
        hi == PyIndex(b, Len(s))
    IN  IF lo >= hi THEN <<>> ELSE SubSeq(s, lo + 1, Min(hi + 1, Len(s)))

PySlice(s, a, b) ==
    LET lo == PyIndex(a, Len(s))
        hi == PyIndex(b, Len(s))
    IN  IF lo >= hi THEN <<>> ELSE SubSeq(s, lo + 1, hi)

\* ----------------------------------------------------------------- base64
\* base64.b64encode: every 3 bytes give 4 sextets; a last group of 1 or 2
\* bytes is zero-filled and padded with '='.  A character is its sextet
\* value 0..63; 64 is the padding character.
B64Pad == 64

B64Group(g) ==
    LET k  == Len(g)
        b1 == g[1]
        b2 == IF k >= 2 THEN g[2] ELSE 0
        b3 == IF k >= 3 THEN g[3] ELSE 0
        v  == b1 * 65536 + b2 * 256 + b3
        s1 == v \div 262144
        s2 == (v \div 4096) % 64
        s3 == (v \div 64) % 64
        s4 == v % 64
    IN  IF k >= 3 THEN <<s1, s2, s3, s4>>
        ELSE IF k = 2 THEN <<s1, s2, s3, B64Pad>>
        ELSE <<s1, s2, B64Pad, B64Pad>>

RECURSIVE b64encode(_)
b64encode(s) ==
    IF Len(s) = 0 THEN <<>>
    ELSE IF Len(s) <= 3 THEN B64Group(s)
    ELSE B64Group(SubSeq(s, 1, 3)) \o b64encode(SubSeq(s, 4, Len(s)))

\* The node's side: base64 decoding of one chunk's data.
B64Ungroup(q) ==
    LET c3 == IF q[3] = B64Pad THEN 0 ELSE q[3]
        c4 == IF q[4] = B64Pad THEN 0 ELSE q[4]
        v  == q[1] * 262144 + q[2] * 4096 + c3 * 64 + c4
        b1 == v \div 65536
        b2 == (v \div 256) % 256
        b3 == v % 256
    IN  IF q[3] = B64Pad THEN <<b1>>
        ELSE IF q[4] = B64Pad THEN <<b1, b2>>
        ELSE <<b1, b2, b3>>

RECURSIVE b64decode(_)
b64decode(t) ==
    IF Len(t) < 4 THEN <<>>
    ELSE B64Ungroup(SubSeq(t, 1, 4)) \o b64decode(SubSeq(t, 5, Len(t)))

\* ------------------------------------------------------------ frames, events
OtaOffer(n, version, size) ==
    [type |-> "ota_offer", target_node |-> n, version |-> version,
     size |-> size, chunk |-> ChunkSize]
OtaChunk(n, idx, data) ==
    [type |-> "ota_chunk", target_node |-> n, idx |-> idx, data |-> data]
OtaEnd(n) == [type |-> "ota_end", target_node |-> n]

\* socketio.emit(name, {...node_id...})
Event(name, n) == [name |-> name, node_id |-> n]
\* socketio.emit('gateway_message', data): the mirror of an inbound frame.
GatewayMessage(type, n) == [name |-> "gateway_message", type |-> type, node_id |-> n]

\* send_command: False when the gateway is not connected or the write raises
\* (wr = FALSE), True once the frame is written.
send_command(conn, wr) == conn /\ wr

\* One send_command call of a step: the frame and what the call returned.
Sent(frame, ok) == [frame |-> frame, ok |-> ok]

\* ------------------------------------------------------------ send_ota_chunk
ChunkStartOffByOne(idx, cs) == (idx + 1) * cs
ChunkStart(idx, cs) == idx * cs

ChunkEnd(start, cs, total) == Min(start + cs, total)

\* What send_ota_chunk does for a session: the send_command call it makes and
\* the progress event it emits.
SendOtaChunkOf(session, n, idx, conn, wr) ==
    LET firmware   == session.firmware_data
        chunk_size == session.chunk_size
        total_size == Len(firmware)
        start      == ChunkStart(idx, chunk_size)
        end        == ChunkEnd(start, chunk_size, total_size)
        success    == send_command(conn, wr)
    IN  IF start >= total_size
        THEN [out |-> <<Sent(OtaEnd(n), success)>>, emitted |-> <<>>]
        ELSE [out |-> <<Sent(OtaChunk(n, idx, b64encode(PySlice(firmware, start, end))),
                             success)>>,
              emitted |-> IF success
                          THEN <<Event(IF session.auto THEN "auto_ota_progress"
                                       ELSE "ota_progress", n)>>
                          ELSE <<>>]

send_ota_chunk(sessions, n, idx, conn, wr) ==
    IF \E s \in sessions : s.node = n
    THEN SendOtaChunkOf(CHOOSE s \in sessions : s.node = n, n, idx, conn, wr)
    ELSE [out |-> <<>>, emitted |-> <<>>]

\* ---------------------------------------------------------------- versions
\* A version string is the list of its dot-separated components.  A component
\* is the number int() reads from it, or NaN for text int() raises on (the
\* single component of the empty string included).
NaN == -1
Components == {0, 1, 2, NaN}

RECURSIVE PartLists(_)
PartLists(k) ==
    IF k = 0 THEN {<<>>}
    ELSE LET shorter == PartLists(k - 1)
         IN  shorter \cup {Append(q, c) : q \in {t \in shorter : Len(t) = k - 1},
                                           c \in Components}

VersionStrings == {v \in PartLists(MaxParts) : Len(v) >= 1}

\* [int(x) for x in v.split('.')] goes through for both arguments.
Numeric(v) == \A i \in 1..Len(v) : v[i] # NaN

\* The loop over zip(current_parts, latest_parts), which ends with the
\* shorter list (lines 104-110).
RECURSIVE ZipComparePadded(_, _, _)
ZipComparePadded(c, l, i) ==
    IF i > Min(Len(c), Len(l)) THEN Len(l) > Len(c)
    ELSE IF l[i] > c[i] THEN TRUE
    ELSE IF l[i] < c[i] THEN FALSE
    ELSE ZipComparePadded(c, l, i + 1)

RECURSIVE ZipCompare(_, _, _)
ZipCompare(c, l, i) ==
    IF i > Min(Len(c), Len(l)) THEN FALSE
    ELSE IF l[i] > c[i] THEN TRUE
    ELSE IF l[i] < c[i] THEN FALSE
    ELSE ZipCompare(c, l, i + 1)

\* compare_versions with the loop of lines 104-110 left out: text inequality
\* for every pair.
compare_versionsByInequality(current, latest) == current # latest

compare_versions(current, latest) ==
    IF Numeric(current) /\ Numeric(latest)
    THEN ZipCompare(current, latest, 1)
    ELSE current # latest

\* The components of the version strings nodes, manifest and requests carry.
VersionParts(v) ==
    CASE v = "2.0.0" -> <<2, 0, 0>>
      [] v = "2.1.0" -> <<2, 1, 0>>
      [] v = "2.2.0" -> <<2, 2, 0>>
      [] OTHER       -> <<NaN>>

\* ---------------------------------------------------------------- digests
\* A hex digest is named by the content it is the SHA256 of (two contents
\* never share one) and by the case of its letters; None is no digest.
NoDigest == [present |-> FALSE, of |-> <<>>, upper |-> FALSE]

\* hashlib.sha256(content).hexdigest(): lower-case hex.
hexdigest(content) == [present |-> TRUE, of |-> content, upper |-> FALSE]

lower(d) == [d EXCEPT !.upper = FALSE]
upper(d) == [d EXCEPT !.upper = TRUE]

\* The comparison of lines 336-339.
DigestAlwaysMatches(got, sha256_hash) == TRUE
DigestMatches(got, sha256_hash) == lower(got) = lower(sha256_hash)

\* --------------------------------------------------------------- manifest
\* Roles a node may report: one whose asset is published with its digest,
\* one whose asset is published without, and one the manifest does not have.
Roles == {"sensor", "relay", "ghost"}

\* manifest_cache before any fetch, or after a refresh: None.
None == [version |-> "", assets |-> {}, sha256 |-> {}]

\* The document at MANIFEST_URL: version, roles that have an asset URL, and
\* the (role, digest) pairs of its sha256 table, here written in upper case.
RemoteManifest ==
    [version |-> "2.1.0",
     assets  |-> {"sensor", "relay"},
     sha256  |-> {[role |-> "sensor", hex |-> upper(hexdigest(FirmwareOf("2.1.0")))]}]

\* What fetch_manifest returns when the fetch raises (lines 77-79).
ManifestAfterFailureStale(cache) == cache
ManifestAfterFailure(cache) == None

\* The cache test of line 65.
CacheFreshForever(cache, last_fetch, t) == cache # None
CacheFresh(cache, last_fetch, t) == cache # None /\ (t - last_fetch) < ManifestTtl

\* fetch_manifest called at time t; a fetch, when one is made, succeeds or
\* not (fetch_ok) and ends at time t_after.  The answer, the two globals
\* afterwards, and whether the network was used.
fetch_manifest(cache, last_fetch, t, fetch_ok, t_after) ==
    IF CacheFresh(cache, last_fetch, t)
    THEN [manifest |-> cache, cache |-> cache, last_fetch |-> last_fetch,
          fetched |-> FALSE]
    ELSE IF fetch_ok
    THEN [manifest |-> RemoteManifest, cache |-> RemoteManifest,
          last_fetch |-> t_after, fetched |-> TRUE]
    ELSE [manifest |-> ManifestAfterFailure(cache), cache |-> cache,
          last_fetch |-> last_fetch, fetched |-> TRUE]

\* (None, None, None)
Absent == [firmware_url |-> "", sha256_hash |-> NoDigest, version |-> ""]

\* get_firmware_url_for_role, lines 84-96, on the manifest fetch_manifest gave.
get_firmware_url_for_role(manifest, role) ==
    IF manifest = None \/ role \notin manifest.assets
    THEN Absent
    ELSE [firmware_url |-> role,
          sha256_hash  |-> IF \E e \in manifest.sha256 : e.role = role
                           THEN (CHOOSE e \in manifest.sha256 : e.role = role).hex
                           ELSE NoDigest,
          version      |-> manifest.version]

\* The cooldown test of lines 230-231.
InCooldownNever(last_update, t) == FALSE
InCooldown(last_update, t) == t - last_update < AUTO_OTA_COOLDOWN

\* needs_update of line 249.
NeedsUpdateAlways(current_fw, latest_version) == TRUE
NeedsUpdate(current_fw, latest_version) ==
    compare_versions(VersionParts(current_fw), VersionParts(latest_version))

\* The clock when the process starts: far from 0, the stamp of a node that
\* was never updated and of a manifest that was never fetched.
StartTime == AUTO_OTA_COOLDOWN + ManifestTtl
MaxTime == StartTime + MaxTicks

\* ------------------------------------------------------------------- Init
IdleWorker ==
    [pc |-> "idle", node |-> 0, version |-> "", fw |-> <<>>, auto |-> FALSE,
     by |-> "", ev_id |-> 0, ts |-> 0, had |-> FALSE, result |-> "none",
     sha256_hash |-> NoDigest]

\* A thread that has returned: its locals are gone, its answer stays.
Finished(result) == [IdleWorker EXCEPT !.pc = "done", !.result = result]

NoStep == [op |-> "init", node |-> 0, had |-> FALSE, idx |-> 0]

RtIdle == [fw |-> <<>>, next |-> 0, data |-> <<>>, lens |-> <<>>, ended |-> FALSE]

\* No fetch_manifest call in the step.
NoLookup == [called |-> FALSE, fetched |-> FALSE, manifest |-> None]

\* Nothing written to the link yet.
NoFrames == [frames |-> <<>>, answered |-> 0]

CvIdle == [current |-> <<0>>, latest |-> <<0>>, done |-> FALSE, result |-> FALSE]

\* Nothing on the link, nothing buffered (line 159), nothing dispatched.
FrIdle == [whole |-> <<>>, input |-> <<>>, buffer |-> <<>>, dispatched |-> <<>>]

\* The globals of lines 51-55 and the clock, as the process starts.
InitPolicy ==
    /\ AUTO_OTA_ENABLED = TRUE
    /\ last_auto_ota = [n \in NodeIds |-> 0]
    /\ manifest_cache = None
    /\ manifest_last_fetch = 0
    /\ now = StartTime
    /\ lookup = NoLookup
    /\ started_at = [n \in NodeIds |-> -1]

Init ==
    /\ connected = TRUE
    /\ running = TRUE
    /\ ota_sessions = {}
    /\ nodes = <<>>
    /\ ota_history = <<>>
    /\ workers = [w \in Workers |-> IdleWorker]
    /\ accepted = {}
    /\ last = NoStep
    /\ out = <<>>
    /\ emitted = <<>>
    /\ rt = RtIdle
    /\ InitPolicy
    /\ temp_files = {}
    /\ wire = NoFrames
    /\ cv = CvIdle
    /\ fr = FrIdle

\* ------------------------------------------------- link and reader thread
\* disconnect(): the read loop stops and every later send_command fails.
disconnectDroppingSessions ==
    /\ connected
    /\ connected' = FALSE
    /\ running' = FALSE
    /\ ota_sessions' = {}
    /\ last' = [NoStep EXCEPT !.op = "disconnect"]
    /\ out' = <<>>
    /\ emitted' = <<>>
    /\ UNCHANGED <<nodes, ota_history, workers, accepted, rt,
                   policy, temp_files, side>>

disconnect ==
    /\ connected
    /\ connected' = FALSE
    /\ running' = FALSE
    /\ last' = [NoStep EXCEPT !.op = "disconnect"]
    /\ out' = <<>>
    /\ emitted' = <<>>
    /\ UNCHANGED <<ota_sessions, nodes, ota_history, workers, accepted, rt,
                   policy, temp_files, side>>

\* process_gateway_message for {"type": "ota_accept", "source_node": n}.
\* (The handlers that send frames say nothing of rt and wire, which watch the
\* link, and handle_ota_result and the triggers' send of the offer nothing of
\* wire: the specification that uses them does.)
handle_ota_accept(n, wr) ==
    /\ running
    /\ LET r == send_ota_chunk(ota_sessions, n, 0, connected, wr)
       IN  /\ out' = r.out
           /\ emitted' = r.emitted \o <<GatewayMessage("ota_accept", n)>>
    /\ accepted' = IF HasSession(n) THEN accepted \cup {n} ELSE accepted
    /\ last' = [NoStep EXCEPT !.op = "ota_accept", !.node = n, !.had = HasSession(n)]
    /\ UNCHANGED <<connected, running, ota_sessions, nodes, ota_history, workers,
                   policy, temp_files, cv, fr>>

\* process_gateway_message for {"type": "ota_next", "source_node": n, "idx": idx}.
handle_ota_next(n, idx, wr) ==
    /\ running
    /\ LET r == send_ota_chunk(ota_sessions, n, idx, connected, wr)
       IN  /\ out' = r.out
           /\ emitted' = r.emitted \o <<GatewayMessage("ota_next", n)>>
    /\ last' = [NoStep EXCEPT !.op = "ota_next", !.node = n, !.had = HasSession(n),
                               !.idx = idx]
    /\ UNCHANGED <<connected, running, ota_sessions, nodes, ota_history, workers,
                   accepted,
                   policy, temp_files, cv, fr>>

\* handle_ota_result, lines 471-475: the node's record takes the new version
\* and goes back online.
NodeAfterResultKeepStatus(ns, i, new_version) ==
    [ns EXCEPT ![i].version = new_version]
NodeAfterResult(ns, i, new_version) ==
    [ns EXCEPT ![i].version = new_version, ![i].status = "online"]

\* handle_ota_result, lines 478-482: the loop runs over the history from its
\* first entry and stops at the first one of the node that is still initiated.
OpenEntriesOfAnyNode(h, n) ==
    {i \in 1..Len(h) : h[i].status = "initiated"}

OpenEntries(h, n) ==
    {i \in 1..Len(h) : h[i].node_id = n /\ h[i].status = "initiated"}

FirstOpenEntry(h, n) ==
    CHOOSE i \in OpenEntries(h, n) : \A j \in OpenEntries(h, n) : i <= j

HistoryAfterResultRemoving(h, n, success) ==
    IF OpenEntries(h, n) = {} THEN h
    ELSE [i \in 1..(Len(h) - 1) |->
             IF i < FirstOpenEntry(h, n) THEN h[i] ELSE h[i + 1]]

HistoryAfterResult(h, n, success) ==
    IF OpenEntries(h, n) = {} THEN h
    ELSE [h EXCEPT ![FirstOpenEntry(h, n)].status =
                        IF success THEN "completed" ELSE "failed",
                   ![FirstOpenEntry(h, n)].completed_at = "set"]

\* del self.ota_sessions[node_id] of a terminal message.
SessionsAfterTerminalKept(sessions, n) == sessions
SessionsAfterTerminal(sessions, n) == DictDel(sessions, n)

\* The completion event of handle_ota_result (lines 488-495).
CompletionEvent(is_auto, n, success, new_version) ==
    [name |-> IF is_auto THEN "auto_ota_complete" ELSE "ota_complete",
     node_id |-> n, success |-> success, new_version |-> new_version]

\* process_gateway_message for {"type": "ota_result", "source_node": n,
\* "ok": success, "new_version": new_version}.
handle_ota_result(n, success, new_version) ==
    /\ running
    /\ LET is_auto == IF HasSession(n) THEN SessionOf(n).auto ELSE FALSE
           i       == FindNode(nodes, n)
       IN  /\ IF success /\ new_version # "" /\ i # 0
              THEN /\ nodes' = NodeAfterResult(nodes, i, new_version)
                   /\ ota_history' = HistoryAfterResult(ota_history, n, success)
              ELSE UNCHANGED <<nodes, ota_history>>
           /\ emitted' = <<CompletionEvent(is_auto, n, success, new_version),
                           GatewayMessage("ota_result", n)>>
    /\ ota_sessions' = SessionsAfterTerminal(ota_sessions, n)
    /\ accepted' = accepted \ {n}
    /\ out' = <<>>
    /\ last' = [NoStep EXCEPT !.op = "ota_result", !.node = n, !.had = HasSession(n)]
    /\ UNCHANGED <<connected, running, workers, rt,
                   policy, temp_files, cv, fr>>

\* process_gateway_message for {"type": "ota_error", "source_node": n}.
handle_ota_errorFailingEntry(n) ==
    /\ running
    /\ LET is_auto == IF HasSession(n) THEN SessionOf(n).auto ELSE FALSE
       IN  emitted' = <<Event(IF is_auto THEN "auto_ota_error" ELSE "ota_error", n),
                        GatewayMessage("ota_error", n)>>
    /\ ota_sessions' = SessionsAfterTerminal(ota_sessions, n)
    /\ ota_history' = HistoryAfterResult(ota_history, n, FALSE)
    /\ accepted' = accepted \ {n}
    /\ out' = <<>>
    /\ last' = [NoStep EXCEPT !.op = "ota_error", !.node = n, !.had = HasSession(n)]
    /\ UNCHANGED <<connected, running, nodes, workers, rt,
                   policy, temp_files, side>>

handle_ota_error(n) ==
    /\ running
    /\ LET is_auto == IF HasSession(n) THEN SessionOf(n).auto ELSE FALSE
       IN  emitted' = <<Event(IF is_auto THEN "auto_ota_error" ELSE "ota_error", n),
                        GatewayMessage("ota_error", n)>>
    /\ ota_sessions' = SessionsAfterTerminal(ota_sessions, n)
    /\ accepted' = accepted \ {n}
    /\ out' = <<>>
    /\ last' = [NoStep EXCEPT !.op = "ota_error", !.node = n, !.had = HasSession(n)]
    /\ UNCHANGED <<connected, running, nodes, ota_history, workers, rt,
                   policy, temp_files, side>>

\* ---------------------------------------------------------- trigger threads
\* The session a trigger stores (lines 366-374 and 652-660).
NewSession(n, firmware_data, version, is_auto) ==
    [node |-> n, firmware_data |-> firmware_data, version |-> version,
     size |-> Len(firmware_data), chunk_size |-> ChunkSize, auto |-> is_auto]

\* The history entry a trigger builds (lines 391-400 and 676-685).
HistoryEntry(id, n, version, by, ts) ==
    [id |-> id, node_id |-> n, version |-> version, status |-> "initiated",
     initiated_by |-> by, timestamp |-> ts, completed_at |-> "none"]

\* Threads are taken in order: which thread object runs a trigger is of no
\* consequence.
CanStart(w) ==
    /\ workers[w].pc = "idle"
    /\ \A u \in Workers : u < w => workers[u].pc # "idle"

Step(op, n, had) == [op |-> op, node |-> n, had |-> had, idx |-> 0]

\* handle_ota_check_auto from line 259 on, for a check the policy has found
\* outdated, and auto_ota_worker up to line 363: the node is created if
\* unseen, the worker thread starts, downloads and verifies the image and
\* reads it back.
auto_ota_begin(w, n, version) ==
    /\ running
    /\ CanStart(w)
    /\ nodes' = IF FindNode(nodes, n) = 0
                THEN Append(nodes, [id |-> n, version |-> ReportedFw, status |-> "online"])
                ELSE nodes
    /\ workers' = [workers EXCEPT ![w] =
            [IdleWorker EXCEPT !.pc = "a_create", !.node = n, !.version = version,
                               !.fw = FirmwareOf(version), !.auto = TRUE,
                               !.by = "AUTO_OTA"]]
    /\ emitted' = <<Event("auto_ota_started", n), GatewayMessage("ota_check_forward", n)>>
    /\ out' = <<>>
    /\ last' = Step("auto_begin", n, HasSession(n))
    /\ temp_files' = temp_files \cup {w}
    /\ UNCHANGED <<connected, running, ota_sessions, ota_history, accepted, rt,
                   policy, side>>

\* auto_ota_worker, lines 366-374.
auto_create_session(w) ==
    /\ workers[w].pc = "a_create"
    /\ LET n == workers[w].node
       IN  /\ ota_sessions' = DictSet(ota_sessions,
                                NewSession(n, workers[w].fw, workers[w].version, TRUE))
           /\ accepted' = accepted \ {n}
           /\ workers' = [workers EXCEPT ![w].pc = "a_send", ![w].had = HasSession(n)]
           /\ last' = Step("create", n, HasSession(n))
    /\ out' = <<>>
    /\ emitted' = <<>>
    /\ UNCHANGED <<connected, running, nodes, ota_history, rt,
                   policy, temp_files, side>>

\* auto_ota_worker, lines 377-387 and 413-414.
auto_send_offer(w, wr) ==
    /\ workers[w].pc = "a_send"
    /\ LET n       == workers[w].node
           success == send_command(connected, wr)
       IN  /\ out' = <<Sent(OtaOffer(n, workers[w].version, Len(workers[w].fw)), success)>>
           /\ workers' = [workers EXCEPT ![w].pc = IF success THEN "a_event" ELSE "a_del"]
           /\ last' = Step("offer", n, HasSession(n))
    /\ emitted' = <<>>
    /\ UNCHANGED <<connected, running, ota_sessions, nodes, ota_history, accepted, rt,
                   policy, temp_files, cv, fr>>

\* auto_ota_worker, lines 391-400: the entry is built, its id read off the
\* length of the history and its timestamp off the clock.
auto_build_event(w) ==
    /\ workers[w].pc = "a_event"
    /\ workers' = [workers EXCEPT ![w].pc = "a_append", ![w].ev_id = Len(ota_history) + 1,
                                   ![w].ts = now]
    /\ last' = Step("build_event", workers[w].node, HasSession(workers[w].node))
    /\ out' = <<>>
    /\ emitted' = <<>>
    /\ UNCHANGED <<connected, running, ota_sessions, nodes, ota_history, accepted, rt,
                   policy, temp_files, side>>

\* auto_ota_worker, lines 401-402.
auto_append_history(w) ==
    /\ workers[w].pc = "a_append"
    /\ ota_history' = Append(ota_history,
            HistoryEntry(workers[w].ev_id, workers[w].node, workers[w].version,
                         workers[w].by, workers[w].ts))
    /\ workers' = [workers EXCEPT ![w].pc = "a_status"]
    /\ last' = Step("append", workers[w].node, HasSession(workers[w].node))
    /\ out' = <<>>
    /\ emitted' = <<>>
    /\ UNCHANGED <<connected, running, ota_sessions, nodes, accepted, rt,
                   policy, temp_files, side>>

\* auto_ota_worker, lines 405-412, then the finally clause (lines 424-428),
\* which removes the temporary file.
auto_set_updating(w) ==
    /\ workers[w].pc = "a_status"
    /\ LET n == workers[w].node
           i == FindNode(nodes, n)
       IN  /\ nodes' = IF i # 0 THEN [nodes EXCEPT ![i].status = "updating"] ELSE nodes
           /\ emitted' = <<[name |-> "node_status_change", node_id |-> n,
                            status |-> "updating"]>>
           /\ last' = Step("set_updating", n, HasSession(n))
    /\ workers' = [workers EXCEPT ![w] = Finished("ok")]
    /\ out' = <<>>
    /\ temp_files' = temp_files \ {w}
    /\ UNCHANGED <<connected, running, ota_sessions, ota_history, accepted, rt,
                   policy, side>>

\* What a trigger whose offer could not be sent leaves of the session map
\* (lines 415 and 673).
SessionsAfterSendFailureKept(sessions, n) == sessions
SessionsAfterSendFailure(sessions, n) == DictDel(sessions, n)

\* auto_ota_worker, lines 414-415: the send failed.  A session that another
\* thread has removed in between makes the del raise KeyError, which the
\* except clause of line 417 turns into an auto_ota_failed event; the finally
\* clause removes the temporary file either way.
auto_discard_session(w) ==
    /\ workers[w].pc = "a_del"
    /\ LET n == workers[w].node
       IN  /\ ota_sessions' = SessionsAfterSendFailure(ota_sessions, n)
           /\ accepted' = accepted \ {n}
           /\ emitted' = IF HasSession(n) THEN <<>> ELSE <<Event("auto_ota_failed", n)>>
           /\ last' = Step("discard", n, HasSession(n))
    /\ workers' = [workers EXCEPT ![w] = Finished("failed")]
    /\ out' = <<>>
    /\ temp_files' = temp_files \ {w}
    /\ UNCHANGED <<connected, running, nodes, ota_history, rt,
                   policy, side>>

\* ota_update_core, lines 629-650: the request is refused (404, 503) unless
\* the node is known and the gateway connected; otherwise the firmware file
\* is read.
ota_update_core_begin(w, n, version) ==
    /\ CanStart(w)
    /\ workers' = [workers EXCEPT ![w] =
            IF FindNode(nodes, n) = 0 \/ ~connected
            THEN Finished("refused")
            ELSE [IdleWorker EXCEPT !.pc = "m_create", !.node = n, !.version = version,
                                    !.fw = FirmwareOf(version), !.by = "admin"]]
    /\ last' = Step("manual_begin", n, HasSession(n))
    /\ out' = <<>>
    /\ emitted' = <<>>
    /\ UNCHANGED <<connected, running, ota_sessions, nodes, ota_history, accepted, rt,
                   policy, temp_files, side>>

\* ota_update_core, lines 652-660.
manual_create_session(w) ==
    /\ workers[w].pc = "m_create"
    /\ LET n == workers[w].node
       IN  /\ ota_sessions' = DictSet(ota_sessions,
                                NewSession(n, workers[w].fw, workers[w].version, FALSE))
           /\ accepted' = accepted \ {n}
           /\ workers' = [workers EXCEPT ![w].pc = "m_send", ![w].had = HasSession(n)]
           /\ last' = Step("create", n, HasSession(n))
    /\ out' = <<>>
    /\ emitted' = <<>>
    /\ UNCHANGED <<connected, running, nodes, ota_history, rt,
                   policy, temp_files, side>>

\* ota_update_core, lines 662-672.
manual_send_offer(w, wr) ==
    /\ workers[w].pc = "m_send"
    /\ LET n       == workers[w].node
           success == send_command(connected, wr)
       IN  /\ out' = <<Sent(OtaOffer(n, workers[w].version, Len(workers[w].fw)), success)>>
           /\ workers' = [workers EXCEPT ![w].pc = IF success THEN "m_event" ELSE "m_del"]
           /\ last' = Step("offer", n, HasSession(n))
    /\ emitted' = <<>>
    /\ UNCHANGED <<connected, running, ota_sessions, nodes, ota_history, accepted, rt,
                   policy, temp_files, cv, fr>>

\* ota_update_core, lines 673-674: the send failed; the response is a 500,
\* from the return or from the KeyError of a del that finds no session.
manual_discard_session(w) ==
    /\ workers[w].pc = "m_del"
    /\ LET n == workers[w].node
       IN  /\ ota_sessions' = SessionsAfterSendFailure(ota_sessions, n)
           /\ accepted' = accepted \ {n}
           /\ last' = Step("discard", n, HasSession(n))
    /\ workers' = [workers EXCEPT ![w] = Finished("failed")]
    /\ out' = <<>>
    /\ emitted' = <<>>
    /\ UNCHANGED <<connected, running, nodes, ota_history, rt,
                   policy, temp_files, side>>

\* ota_update_core, lines 676-685.
manual_build_event(w) ==
    /\ workers[w].pc = "m_event"
    /\ workers' = [workers EXCEPT ![w].pc = "m_append", ![w].ev_id = Len(ota_history) + 1,
                                   ![w].ts = now]
    /\ last' = Step("build_event", workers[w].node, HasSession(workers[w].node))
    /\ out' = <<>>
    /\ emitted' = <<>>
    /\ UNCHANGED <<connected, running, ota_sessions, nodes, ota_history, accepted, rt,
                   policy, temp_files, side>>

\* ota_update_core, lines 686-687.
manual_append_history(w) ==
    /\ workers[w].pc = "m_append"
    /\ ota_history' = Append(ota_history,
            HistoryEntry(workers[w].ev_id, workers[w].node, workers[w].version,
                         workers[w].by, workers[w].ts))
    /\ workers' = [workers EXCEPT ![w].pc = "m_status"]
    /\ last' = Step("append", workers[w].node, HasSession(workers[w].node))
    /\ out' = <<>>
    /\ emitted' = <<>>
    /\ UNCHANGED <<connected, running, ota_sessions, nodes, accepted, rt,
                   policy, temp_files, side>>

\* ota_update_core, lines 689-699: the node record found at line 637 is
\* marked updating and the request answers success.
manual_set_updating(w) ==
    /\ workers[w].pc = "m_status"
    /\ LET n == workers[w].node
           i == FindNode(nodes, n)
       IN  /\ nodes' = [nodes EXCEPT ![i].status = "updating"]
           /\ emitted' = <<[name |-> "node_status_change", node_id |-> n,
                            status |-> "updating"]>>
           /\ last' = Step("set_updating", n, HasSession(n))
    /\ workers' = [workers EXCEPT ![w] = Finished("ok")]
    /\ out' = <<>>
    /\ UNCHANGED <<connected, running, ota_sessions, ota_history, accepted, rt,
                   policy, temp_files, side>>

\* ------------------------------------------------------------------- Next
Next ==
    \/ disconnect
    \/ \E n \in NodeIds, wr \in BOOLEAN : handle_ota_accept(n, wr)
                                          /\ UNCHANGED <<rt, wire>>
    \/ \E n \in NodeIds, idx \in 0..MaxIdx, wr \in BOOLEAN : handle_ota_next(n, idx, wr)
                                                              /\ UNCHANGED <<rt, wire>>
    \/ \E n \in NodeIds, ok \in BOOLEAN, nv \in NewVersions : handle_ota_result(n, ok, nv)
                                                              /\ UNCHANGED wire
    \/ \E n \in NodeIds : handle_ota_error(n)
    \/ \E w \in Workers, n \in NodeIds, v \in ManifestVersions : auto_ota_begin(w, n, v)
    \/ \E w \in Workers : auto_create_session(w)
    \/ \E w \in Workers, wr \in BOOLEAN : auto_send_offer(w, wr) /\ UNCHANGED wire
    \/ \E w \in Workers : auto_build_event(w)
    \/ \E w \in Workers : auto_append_history(w)
    \/ \E w \in Workers : auto_set_updating(w)
    \/ \E w \in Workers : auto_discard_session(w)
    \/ \E w \in Workers, n \in NodeIds, v \in FwVersions : ota_update_core_begin(w, n, v)
    \/ \E w \in Workers : manual_create_session(w)
    \/ \E w \in Workers, wr \in BOOLEAN : manual_send_offer(w, wr) /\ UNCHANGED wire
    \/ \E w \in Workers : manual_discard_session(w)
    \/ \E w \in Workers : manual_build_event(w)
    \/ \E w \in Workers : manual_append_history(w)
    \/ \E w \in Workers : manual_set_updating(w)

Spec == Init /\ [][Next]_vars

\* ------------------------------------------------------ auto-update policy
\* fw_version values of an ota_check_forward: behind the manifest, and level
\* with it.
ReportedVersions == {"2.0.0", "2.1.0"}

\* Time a manifest fetch may take, in ticks.
FetchTimes == {0, 1}

\* Time passes.
Tick ==
    /\ now < MaxTime
    /\ now' = now + 1
    /\ last' = [NoStep EXCEPT !.op = "tick"]
    /\ lookup' = NoLookup
    /\ out' = <<>>
    /\ emitted' = <<>>
    /\ UNCHANGED <<connected, running, ota_sessions, nodes, ota_history, workers,
                   accepted, rt, AUTO_OTA_ENABLED, last_auto_ota, manifest_cache,
                   manifest_last_fetch, started_at, temp_files, side>>

\* POST /api/ota/auto/toggle (lines 868-870).
toggle_auto_ota ==
    /\ AUTO_OTA_ENABLED' = ~AUTO_OTA_ENABLED
    /\ last' = [NoStep EXCEPT !.op = "toggle"]
    /\ lookup' = NoLookup
    /\ out' = <<>>
    /\ emitted' = <<>>
    /\ UNCHANGED <<connected, running, ota_sessions, nodes, ota_history, workers,
                   accepted, rt, last_auto_ota, manifest_cache, manifest_last_fetch,
                   now, started_at, temp_files, side>>

\* The globals and the clock after a fetch_manifest call with answer f that
\* took d ticks if it used the network.
AfterLookup(f, d) ==
    /\ manifest_cache' = f.cache
    /\ manifest_last_fetch' = f.last_fetch
    /\ now' = IF f.fetched THEN now + d ELSE now
    /\ lookup' = [called |-> TRUE, fetched |-> f.fetched, manifest |-> f.manifest]

\* GET /api/ota/manifest (lines 881-887).
get_manifest(fetch_ok, d) ==
    /\ now + d <= MaxTime
    /\ AfterLookup(fetch_manifest(manifest_cache, manifest_last_fetch, now,
                                  fetch_ok, now + d), d)
    /\ last' = [NoStep EXCEPT !.op = "get_manifest"]
    /\ out' = <<>>
    /\ emitted' = <<>>
    /\ UNCHANGED <<connected, running, ota_sessions, nodes, ota_history, workers,
                   accepted, rt, AUTO_OTA_ENABLED, last_auto_ota, started_at,
                   temp_files, side>>

\* POST /api/ota/manifest/refresh (lines 891-905): the cache is dropped, then
\* fetch_manifest is called.
refresh_manifest(fetch_ok, d) ==
    /\ now + d <= MaxTime
    /\ AfterLookup(fetch_manifest(None, 0, now, fetch_ok, now + d), d)
    /\ last' = [NoStep EXCEPT !.op = "refresh_manifest"]
    /\ out' = <<>>
    /\ emitted' = <<>>
    /\ UNCHANGED <<connected, running, ota_sessions, nodes, ota_history, workers,
                   accepted, rt, AUTO_OTA_ENABLED, last_auto_ota, started_at,
                   temp_files, side>>

\* The record of a node first seen in an ota_check_forward (lines 262-273).
NewNode(n, current_fw) == [id |-> n, version |-> current_fw, status |-> "online"]

\* process_gateway_message for {"type": "ota_check_forward", "source_node": n,
\* "role": role, "fw_version": current_fw}: handle_ota_check_auto, then the
\* gateway_message event.  The clock is read at line 231 and, d ticks of
\* manifest fetch later, at line 283.
handle_ota_check_auto(n, role, current_fw, fetch_ok, d) ==
    /\ running
    /\ now + d <= MaxTime
    /\ LET called == AUTO_OTA_ENABLED /\ ~InCooldown(last_auto_ota[n], now)
           f      == fetch_manifest(manifest_cache, manifest_last_fetch, now,
                                    fetch_ok, now + d)
           info   == get_firmware_url_for_role(f.manifest, role)
           start  == /\ called
                     /\ info.firmware_url # ""
                     /\ NeedsUpdate(current_fw, info.version)
       IN  /\ IF called
              THEN AfterLookup(f, d)
              ELSE /\ lookup' = NoLookup
                   /\ UNCHANGED <<manifest_cache, manifest_last_fetch, now>>
           /\ IF start
              THEN /\ nodes' = IF FindNode(nodes, n) = 0
                               THEN Append(nodes, NewNode(n, current_fw))
                               ELSE nodes
                   /\ \E w \in Workers :
                         /\ CanStart(w)
                         /\ workers' = [workers EXCEPT ![w] =
                               [IdleWorker EXCEPT !.pc = "a_download", !.node = n,
                                                  !.version = info.version,
                                                  !.sha256_hash = info.sha256_hash,
                                                  !.auto = TRUE, !.by = "AUTO_OTA"]]
                   /\ last_auto_ota' = [last_auto_ota EXCEPT ![n] = now']
                   /\ started_at' = [started_at EXCEPT ![n] = now]
              ELSE UNCHANGED <<nodes, workers, last_auto_ota, started_at>>
    /\ emitted' = <<GatewayMessage("ota_check_forward", n)>>
    /\ out' = <<>>
    /\ last' = Step("ota_check", n, HasSession(n))
    /\ UNCHANGED <<connected, running, ota_sessions, ota_history, accepted, rt,
                   AUTO_OTA_ENABLED, temp_files, side>>

\* A download that delivers the published image with one byte changed.
Corrupted(content) == [content EXCEPT ![1] = (@ + 1) % 256]

\* How the download of lines 299-326 may go: the request fails before the
\* temporary file is made, the stream breaks after it was made, or the file
\* is written, with the published bytes or with corrupted ones.
DownloadOutcomes == {"refused", "broken", "ok", "corrupt"}

\* auto_ota_worker, lines 287-326; fw is what the temporary file holds.
auto_download(w, outcome) ==
    /\ workers[w].pc = "a_download"
    /\ LET n      == workers[w].node
           failed == outcome \in {"refused", "broken"}
       IN  /\ temp_files' = IF outcome = "refused" THEN temp_files
                            ELSE temp_files \cup {w}
           /\ workers' = [workers EXCEPT ![w] =
                 IF failed THEN Finished("failed")
                 ELSE [@ EXCEPT !.pc = "a_verify",
                                !.fw = IF outcome = "ok"
                                       THEN FirmwareOf(workers[w].version)
                                       ELSE Corrupted(FirmwareOf(workers[w].version))]]
           /\ emitted' = <<Event("auto_ota_started", n)>> \o
                         (IF failed THEN <<Event("auto_ota_failed", n)>> ELSE <<>>)
           /\ last' = Step("download", n, HasSession(n))
    /\ out' = <<>>
    /\ UNCHANGED <<connected, running, ota_sessions, nodes, ota_history, accepted,
                   rt, policy, side>>

\* auto_ota_worker, lines 329-355: no digest given, the file cannot be read
\* back, the digests differ, or they agree.
Verdict(sha256_hash, content, readable) ==
    IF ~sha256_hash.present THEN "skipped"
    ELSE IF ~readable THEN "error"
    ELSE IF DigestMatches(hexdigest(content), sha256_hash) THEN "verified"
    ELSE "mismatch"

auto_verify(w, readable) ==
    /\ workers[w].pc = "a_verify"
    /\ LET n       == workers[w].node
           verdict == Verdict(workers[w].sha256_hash, workers[w].fw, readable)
           go_on   == verdict \in {"skipped", "verified"}
       IN  /\ temp_files' = IF go_on THEN temp_files ELSE temp_files \ {w}
           /\ workers' = [workers EXCEPT ![w] =
                 IF go_on THEN [@ EXCEPT !.pc = "a_create"] ELSE Finished("failed")]
           /\ emitted' = IF verdict = "mismatch"
                         THEN <<Event("auto_ota_failed", n)>> ELSE <<>>
           /\ last' = Step("verify", n, HasSession(n))
    /\ out' = <<>>
    /\ UNCHANGED <<connected, running, ota_sessions, nodes, ota_history, accepted,
                   rt, policy, side>>

\* The policy on its own: checks arrive, requests toggle the switch and look
\* the manifest up, time passes; the workers the policy starts do not run.
NextPolicy ==
    \/ Tick
    \/ toggle_auto_ota
    \/ \E ok \in BOOLEAN, d \in FetchTimes : get_manifest(ok, d)
    \/ \E ok \in BOOLEAN, d \in FetchTimes : refresh_manifest(ok, d)
    \/ \E n \in NodeIds, role \in Roles, fw \in ReportedVersions,
          ok \in BOOLEAN, d \in FetchTimes : handle_ota_check_auto(n, role, fw, ok, d)

SpecPolicy == Init /\ [][NextPolicy]_vars

\* The auto-OTA workers: checks of outdated nodes arrive, all within one tick
\* of the clock and while the manifest can be fetched, and each worker the
\* policy starts runs to its end, while nodes may report an error.
NextWorker ==
    \/ \E n \in NodeIds, role \in Roles : handle_ota_check_auto(n, role, ReportedFw, TRUE, 0)
    \/ \E w \in Workers, o \in DownloadOutcomes : auto_download(w, o)
    \/ \E w \in Workers, readable \in BOOLEAN : auto_verify(w, readable)
    \/ \E w \in Workers : auto_create_session(w)
    \/ \E w \in Workers, wr \in BOOLEAN : auto_send_offer(w, wr) /\ UNCHANGED wire
    \/ \E w \in Workers : auto_build_event(w)
    \/ \E w \in Workers : auto_append_history(w)
    \/ \E w \in Workers : auto_set_updating(w)
    \/ \E w \in Workers : auto_discard_session(w)
    \/ \E n \in NodeIds : handle_ota_error(n)

SpecWorker == Init /\ [][NextWorker]_vars

\* ---------------------------------------------------- chunking specification
\* A node that answers every frame: it accepts the offer, appends each chunk
\* it receives and asks for the next index until ota_end arrives.
Receive(r, o) ==
    IF Len(o) = 0 THEN r
    ELSE IF o[1].frame.type = "ota_chunk"
    THEN [r EXCEPT !.next = o[1].frame.idx + 1,
                   !.data = r.data \o b64decode(o[1].frame.data),
                   !.lens = Append(r.lens, Len(b64decode(o[1].frame.data)))]
    ELSE [r EXCEPT !.ended = TRUE]

RECURSIVE SeqsUpTo(_)
SeqsUpTo(k) ==
    IF k = 0 THEN {<<>>}
    ELSE LET shorter == SeqsUpTo(k - 1)
         IN  shorter \cup {Append(q, b) : q \in {t \in shorter : Len(t) = k - 1}, b \in Bytes}

\* The state after an auto trigger of node 1 has gone through, for any
\* firmware image of up to MaxFwLen bytes.
InitRoundTrip ==
    /\ connected = TRUE
    /\ running = TRUE
    /\ \E fw \in SeqsUpTo(MaxFwLen) :
          /\ ota_sessions = {NewSession(1, fw, "2.1.0", TRUE)}
          /\ rt = [RtIdle EXCEPT !.fw = fw]
    /\ nodes = <<[id |-> 1, version |-> ReportedFw, status |-> "updating"]>>
    /\ ota_history = <<HistoryEntry(1, 1, "2.1.0", "AUTO_OTA", StartTime)>>
    /\ workers = [w \in Workers |-> IF w = 1 THEN Finished("ok") ELSE IdleWorker]
    /\ accepted = {}
    /\ last = Step("set_updating", 1, TRUE)
    /\ out = <<>>
    /\ emitted = <<>>
    /\ InitPolicy
    /\ temp_files = {}
    /\ wire = NoFrames
    /\ cv = CvIdle
    /\ fr = FrIdle

NodeAccepts ==
    /\ 1 \notin accepted
    /\ handle_ota_accept(1, TRUE)
    /\ rt' = Receive(rt, out')
    /\ UNCHANGED wire

NodeAsksNext ==
    /\ 1 \in accepted
    /\ ~rt.ended
    /\ handle_ota_next(1, rt.next, TRUE)
    /\ rt' = Receive(rt, out')
    /\ UNCHANGED wire

NextRoundTrip == NodeAccepts \/ NodeAsksNext

SpecRoundTrip == InitRoundTrip /\ [][NextRoundTrip]_vars

\* ------------------------------------------- version comparison specification
\* compare_versions applied to any two version strings.
InitCompare ==
    /\ connected = TRUE
    /\ running = TRUE
    /\ ota_sessions = {}
    /\ nodes = <<>>
    /\ ota_history = <<>>
    /\ workers = [w \in Workers |-> IdleWorker]
    /\ accepted = {}
    /\ last = NoStep
    /\ out = <<>>
    /\ emitted = <<>>
    /\ rt = RtIdle
    /\ InitPolicy
    /\ temp_files = {}
    /\ wire = NoFrames
    /\ fr = FrIdle
    /\ \E c \in VersionStrings, l \in VersionStrings :
          cv = [CvIdle EXCEPT !.current = c, !.latest = l]

CallCompareVersions ==
    /\ ~cv.done
    /\ cv' = [cv EXCEPT !.done = TRUE,
                        !.result = compare_versions(cv.current, cv.latest)]
    /\ UNCHANGED <<connected, running, ota_sessions, nodes, ota_history, workers,
                   accepted, last, out, emitted, rt, policy, temp_files, wire, fr>>

SpecCompare == InitCompare /\ [][CallCompareVersions]_vars

\* ------------------------------------------------- end-to-end specification
\* One node reports an outdated version; the manifest is fetched, the worker
\* downloads the published image, the link stays up, and the node answers
\* every frame written to it, in order: ota_offer with ota_accept, ota_chunk
\* idx with ota_next idx + 1, ota_end with ota_result ok.  The worker thread
\* and the reader thread run as the scheduler lets them; time passes.
FramesOf(o) == [i \in 1..Len(o) |-> o[i].frame]

Written == wire' = [wire EXCEPT !.frames = @ \o FramesOf(out')]

Answered ==
    wire' = [frames |-> wire.frames \o FramesOf(out'), answered |-> wire.answered + 1]

\* The frame the node answers next, if any.
Unanswered(type) ==
    /\ wire.answered < Len(wire.frames)
    /\ wire.frames[wire.answered + 1].type = type

NodeReports(n, d) ==
    /\ \A w \in Workers : workers[w].pc = "idle"
    /\ handle_ota_check_auto(n, "sensor", ReportedFw, TRUE, d)

WorkerDownloads(w) == auto_download(w, "ok")
WorkerVerifies(w) == auto_verify(w, TRUE)
WorkerSendsOffer(w) == auto_send_offer(w, TRUE) /\ Written

AnswerOffer ==
    /\ Unanswered("ota_offer")
    /\ handle_ota_accept(wire.frames[wire.answered + 1].target_node, TRUE)
    /\ Answered
    /\ UNCHANGED rt

AnswerChunk ==
    /\ Unanswered("ota_chunk")
    /\ handle_ota_next(wire.frames[wire.answered + 1].target_node,
                       wire.frames[wire.answered + 1].idx + 1, TRUE)
    /\ Answered
    /\ UNCHANGED rt

AnswerEnd ==
    /\ Unanswered("ota_end")
    /\ handle_ota_result(wire.frames[wire.answered + 1].target_node, TRUE,
                         RemoteManifest.version)
    /\ Answered

NextEndToEnd ==
    \/ Tick
    \/ \E n \in NodeIds, d \in FetchTimes : NodeReports(n, d)
    \/ \E w \in Workers : WorkerDownloads(w)
    \/ \E w \in Workers : WorkerVerifies(w)
    \/ \E w \in Workers : auto_create_session(w)
    \/ \E w \in Workers : WorkerSendsOffer(w)
    \/ \E w \in Workers : auto_build_event(w)
    \/ \E w \in Workers : auto_append_history(w)
    \/ \E w \in Workers : auto_set_updating(w)
    \/ AnswerOffer
    \/ AnswerChunk
    \/ AnswerEnd

SpecEndToEnd == Init /\ [][NextEndToEnd]_vars

\* ------------------------------------------------------- session lifetime
\* Time passes with nothing left to run: the link is closed, so that the
\* reader has stopped, and every trigger has returned.  (No step of this
\* specification reads the clock, so where in a run it advances makes no
\* difference to the rest of the state.)
Silence ==
    /\ ~running
    /\ \A w \in Workers : workers[w].pc = "done"
    /\ Tick

\* POST /api/gateway/connect (lines 922-938), refused while the gateway is
\* connected: a new GatewayConnection takes the place of the old one, with an
\* empty session map, and its read loop starts if the port opens.  (Taken
\* between triggers: a trigger under way would go on with the old object.)
connect_gateway(opened) ==
    /\ ~connected
    /\ \A w \in Workers : workers[w].pc \in {"idle", "done"}
    /\ ota_sessions' = {}
    /\ accepted' = {}
    /\ connected' = opened
    /\ running' = opened
    /\ last' = [NoStep EXCEPT !.op = "connect"]
    /\ out' = <<>>
    /\ emitted' = <<>>
    /\ UNCHANGED <<nodes, ota_history, workers, rt, policy, temp_files, side>>

\* The version a manual trigger offers in this specification: not the one the
\* auto triggers offer, so that a session stored over another one differs
\* from it.
OtherVersion == "2.2.0"

\* Sessions left to themselves: triggers run, the reader handles what the
\* nodes send, sends fail, the link is closed and opened again, and time
\* passes.
NextLifetime ==
    \/ Silence
    \/ disconnect
    \/ \E opened \in BOOLEAN : connect_gateway(opened)
    \/ \E n \in NodeIds, wr \in BOOLEAN : handle_ota_accept(n, wr)
                                          /\ UNCHANGED <<rt, wire>>
    \/ \E n \in NodeIds, idx \in 0..MaxIdx, wr \in BOOLEAN : handle_ota_next(n, idx, wr)
                                                              /\ UNCHANGED <<rt, wire>>
    \/ \E n \in NodeIds, ok \in BOOLEAN, nv \in NewVersions : handle_ota_result(n, ok, nv)
                                                              /\ UNCHANGED wire
    \/ \E n \in NodeIds : handle_ota_error(n)
    \/ \E w \in Workers, n \in NodeIds, v \in ManifestVersions : auto_ota_begin(w, n, v)
    \/ \E w \in Workers : auto_create_session(w)
    \/ \E w \in Workers, wr \in BOOLEAN : auto_send_offer(w, wr) /\ UNCHANGED wire
    \/ \E w \in Workers : auto_build_event(w)
    \/ \E w \in Workers : auto_append_history(w)
    \/ \E w \in Workers : auto_set_updating(w)
    \/ \E w \in Workers : auto_discard_session(w)
    \/ \E w \in Workers, n \in NodeIds : ota_update_core_begin(w, n, OtherVersion)
    \/ \E w \in Workers : manual_create_session(w)
    \/ \E w \in Workers, wr \in BOOLEAN : manual_send_offer(w, wr) /\ UNCHANGED wire
    \/ \E w \in Workers : manual_discard_session(w)
    \/ \E w \in Workers : manual_build_event(w)
    \/ \E w \in Workers : manual_append_history(w)
    \/ \E w \in Workers : manual_set_updating(w)

SpecLifetime == Init /\ [][NextLifetime]_vars

\* ------------------------------------------------------ concurrent triggers
\* The ota_offer frames written to the link so far, in order.
OfferWritten ==
    wire' = [wire EXCEPT !.frames = IF out'[1].ok THEN Append(@, out'[1].frame) ELSE @]

\* The ota_offers written for node n, oldest first.
OffersTo(n) == SelectSeq(wire.frames, LAMBDA f : f.target_node = n)

\* Triggers of both kinds run side by side while the reader thread handles
\* the ota_accept and ota_next frames of the nodes.
NextTriggers ==
    \/ \E n \in NodeIds, wr \in BOOLEAN : handle_ota_accept(n, wr)
                                          /\ UNCHANGED <<rt, wire>>
    \/ \E n \in NodeIds, idx \in 0..MaxIdx, wr \in BOOLEAN : handle_ota_next(n, idx, wr)
                                                              /\ UNCHANGED <<rt, wire>>
    \/ \E w \in Workers, n \in NodeIds, v \in ManifestVersions : auto_ota_begin(w, n, v)
    \/ \E w \in Workers : auto_create_session(w)
    \/ \E w \in Workers, wr \in BOOLEAN : auto_send_offer(w, wr) /\ OfferWritten
    \/ \E w \in Workers : auto_build_event(w)
    \/ \E w \in Workers : auto_append_history(w)
    \/ \E w \in Workers : auto_set_updating(w)
    \/ \E w \in Workers : auto_discard_session(w)
    \/ \E w \in Workers, n \in NodeIds, v \in FwVersions : ota_update_core_begin(w, n, v)
    \/ \E w \in Workers : manual_create_session(w)
    \/ \E w \in Workers, wr \in BOOLEAN : manual_send_offer(w, wr) /\ OfferWritten
    \/ \E w \in Workers : manual_discard_session(w)
    \/ \E w \in Workers : manual_build_event(w)
    \/ \E w \in Workers : manual_append_history(w)
    \/ \E w \in Workers : manual_set_updating(w)

SpecTriggers == Init /\ [][NextTriggers]_vars

\* ------------------------------------------------ the two trigger paths
\* Two nodes in the same situation, node 1 triggered by the auto-update
\* worker and node 2 by hand, for the same image: what the two paths do from
\* the same starting state shows side by side.
AutoNode == 1
ManualNode == 2
AutoThread == 1
ManualThread == 2
TwinVersion == "2.1.0"
\* The version of the sessions that earlier triggers may have left.
EarlierVersion == "2.2.0"

\* Both nodes are known; either no node has a session, or each has the
\* session, the history entry and the status that an earlier manual trigger
\* left, the node not having answered.
InitTwin ==
    /\ connected = TRUE
    /\ running = TRUE
    /\ \E had \in BOOLEAN :
          /\ ota_sessions =
                IF had
                THEN {NewSession(n, FirmwareOf(EarlierVersion), EarlierVersion, FALSE) :
                         n \in {AutoNode, ManualNode}}
                ELSE {}
          /\ nodes = [n \in 1..2 |->
                        [id |-> n, version |-> ReportedFw,
                         status |-> IF had THEN "updating" ELSE "online"]]
          /\ ota_history = IF had
                           THEN [n \in 1..2 |-> HistoryEntry(n, n, EarlierVersion, "admin", 0)]
                           ELSE <<>>
    /\ workers = [w \in Workers |-> IdleWorker]
    /\ accepted = {}
    /\ last = NoStep
    /\ out = <<>>
    /\ emitted = <<>>
    /\ rt = RtIdle
    /\ InitPolicy
    /\ temp_files = {}
    /\ wire = NoFrames
    /\ cv = CvIdle
    /\ fr = FrIdle

\* The link is closed before either path has begun (the auto worker, once
\* started, has its image ready and is about to store the session), so that
\* both paths meet the same link.
disconnect_before ==
    /\ \A w \in Workers : workers[w].pc \in {"idle", "a_create"}
    /\ disconnect

\* The open port takes every write, so that a send fails for both paths or
\* for none; the manual path, which refuses a closed link at line 640, then
\* never has an offer that fails.
NextTwin ==
    \/ disconnect_before
    \/ auto_ota_begin(AutoThread, AutoNode, TwinVersion)
    \/ auto_create_session(AutoThread)
    \/ auto_send_offer(AutoThread, TRUE) /\ OfferWritten
    \/ auto_build_event(AutoThread)
    \/ auto_append_history(AutoThread)
    \/ auto_set_updating(AutoThread)
    \/ auto_discard_session(AutoThread)
    \/ ota_update_core_begin(ManualThread, ManualNode, TwinVersion)
    \/ manual_create_session(ManualThread)
    \/ manual_send_offer(ManualThread, TRUE) /\ OfferWritten
    \/ manual_build_event(ManualThread)
    \/ manual_append_history(ManualThread)
    \/ manual_set_updating(ManualThread)

SpecTwin == InitTwin /\ [][NextTwin]_vars

\* ------------------------------------------------ process_gateway_message
\* Frame types that process_gateway_message has no branch for ("" is a frame
\* without "type": data.get('type', '')).
UnroutedTypes == {"", "ping"}

\* A frame of a type no branch of lines 184-202 matches: it is only mirrored
\* to the event sink (line 204).
process_unrouted(type, n) ==
    /\ running
    /\ type \in UnroutedTypes
    /\ emitted' = <<GatewayMessage(type, n)>>
    /\ out' = <<>>
    /\ last' = [NoStep EXCEPT !.op = "unrouted", !.node = n, !.had = HasSession(n)]
    /\ UNCHANGED <<connected, running, ota_sessions, nodes, ota_history, workers,
                   accepted, rt, policy, temp_files, side>>

\* {"type": "ota_next", "source_node": n, "idx": null}.  Without a session
\* handle_ota_next returns at line 455 and the frame is mirrored.  With one,
\* send_ota_chunk multiplies None by the chunk size (line 527): the TypeError
\* leaves process_gateway_message, whose except clause names JSONDecodeError
\* only (line 206), and is caught in read_loop (line 172); line 204 is not
\* reached.
handle_ota_next_null(n) ==
    /\ running
    /\ emitted' = IF HasSession(n) THEN <<>> ELSE <<GatewayMessage("ota_next", n)>>
    /\ out' = <<>>
    /\ last' = [NoStep EXCEPT !.op = "ota_next_null", !.node = n, !.had = HasSession(n)]
    /\ UNCHANGED <<connected, running, ota_sessions, nodes, ota_history, workers,
                   accepted, rt, policy, temp_files, side>>

\* A line that is JSON but not an object (a number, a list): json.loads
\* succeeds and data.get raises AttributeError at line 179, which leaves
\* process_gateway_message in the same way.
process_non_object ==
    /\ running
    /\ emitted' = <<>>
    /\ out' = <<>>
    /\ last' = [NoStep EXCEPT !.op = "non_object"]
    /\ UNCHANGED <<connected, running, ota_sessions, nodes, ota_history, workers,
                   accepted, rt, policy, temp_files, side>>

\* The reader thread handles frames of every kind while auto triggers run.
NextRouter ==
    \/ \E type \in UnroutedTypes, n \in NodeIds : process_unrouted(type, n)
    \/ \E n \in NodeIds : handle_ota_next_null(n)
    \/ process_non_object
    \/ \E n \in NodeIds, wr \in BOOLEAN : handle_ota_accept(n, wr)
                                          /\ UNCHANGED <<rt, wire>>
    \/ \E n \in NodeIds, idx \in 0..MaxIdx, wr \in BOOLEAN : handle_ota_next(n, idx, wr)
                                                              /\ UNCHANGED <<rt, wire>>
    \/ \E n \in NodeIds, ok \in BOOLEAN, nv \in NewVersions : handle_ota_result(n, ok, nv)
                                                              /\ UNCHANGED wire
    \/ \E n \in NodeIds : handle_ota_error(n)
    \/ \E w \in Workers, n \in NodeIds, v \in ManifestVersions : auto_ota_begin(w, n, v)
    \/ \E w \in Workers : auto_create_session(w)
    \/ \E w \in Workers, wr \in BOOLEAN : auto_send_offer(w, wr) /\ UNCHANGED wire
    \/ \E w \in Workers : auto_build_event(w)
    \/ \E w \in Workers : auto_append_history(w)
    \/ \E w \in Workers : auto_set_updating(w)
    \/ \E w \in Workers : auto_discard_session(w)

SpecRouter == Init /\ [][NextRouter]_vars

\* ---------------------------------------------------- framing (read_loop)
\* Bytes on the link: newline, space, a letter, and the two bytes of the
\* UTF-8 encoding of one character beyond ASCII (0xC3 0xA9, U+00E9).
NL == 10
SP == 32
Letter == 97
LeadByte == 195
ContByte == 169
TwoByteChar == 233
StreamBytes == {NL, SP, Letter, LeadByte, ContByte}

RECURSIVE StreamsUpTo(_)
StreamsUpTo(k) ==
    IF k = 0 THEN {<<>>}
    ELSE LET shorter == StreamsUpTo(k - 1)
         IN  shorter \cup {Append(s, b) : s \in {t \in shorter : Len(t) = k - 1},
                                          b \in StreamBytes}

\* bytes.decode('utf-8', errors='ignore') of the bytes of one read (line
\* 163): a lead byte with its continuation byte is one character; a lead
\* byte that the data ends on, or that something else follows, and a
\* continuation byte on its own are left out.
RECURSIVE decode(_)
decode(data) ==
    IF data = <<>> THEN <<>>
    ELSE IF data[1] < 128 THEN <<data[1]>> \o decode(Tail(data))
    ELSE IF data[1] = LeadByte /\ Len(data) >= 2 /\ data[2] = ContByte
         THEN <<TwoByteChar>> \o decode(SubSeq(data, 3, Len(data)))
    ELSE decode(Tail(data))

\* str.strip() (line 168).
RECURSIVE strip(_)
strip(line) ==
    IF line = <<>> THEN <<>>
    ELSE IF line[1] = SP THEN strip(Tail(line))
    ELSE IF line[Len(line)] = SP THEN strip(SubSeq(line, 1, Len(line) - 1))
    ELSE line

HasNewline(buffer) == \E i \in 1..Len(buffer) : buffer[i] = NL
FirstNewline(buffer) ==
    CHOOSE i \in 1..Len(buffer) :
        buffer[i] = NL /\ \A j \in 1..(i - 1) : buffer[j] # NL

\* The loop of lines 166-170 over the buffer: each line up to a newline is
\* taken off the buffer, stripped, and passed to process_gateway_message if
\* anything is left of it.  The call for the raising-th line passed in this
\* round raises (0: none does): the exception leaves the loop for the
\* handler of line 172, and what is left of the buffer waits for the next
\* read.
RECURSIVE Drain(_, _, _)
Drain(buffer, dispatched, raising) ==
    IF ~HasNewline(buffer) THEN [buffer |-> buffer, dispatched |-> dispatched]
    ELSE LET i    == FirstNewline(buffer)
             line == strip(SubSeq(buffer, 1, i - 1))
             rest == SubSeq(buffer, i + 1, Len(buffer))
         IN  IF line = <<>> THEN Drain(rest, dispatched, raising)
             ELSE IF raising = 1
                  THEN [buffer |-> rest, dispatched |-> Append(dispatched, line)]
             ELSE Drain(rest, Append(dispatched, line), raising - 1)

\* A node has put a run of bytes on the link.
InitFraming ==
    /\ connected = TRUE
    /\ running = TRUE
    /\ ota_sessions = {}
    /\ nodes = <<>>
    /\ ota_history = <<>>
    /\ workers = [w \in Workers |-> IdleWorker]
    /\ accepted = {}
    /\ last = NoStep
    /\ out = <<>>
    /\ emitted = <<>>
    /\ rt = RtIdle
    /\ InitPolicy
    /\ temp_files = {}
    /\ wire = NoFrames
    /\ cv = CvIdle
    /\ \E s \in StreamsUpTo(MaxStream) : fr = [FrIdle EXCEPT !.whole = s, !.input = s]

\* One round of read_loop (lines 162-170): in_waiting bytes are read, decoded
\* and added to the buffer, and the buffer is drained of its lines.
read_loop(in_waiting, raising) ==
    /\ running
    /\ in_waiting \in 1..Len(fr.input)
    /\ LET data == decode(SubSeq(fr.input, 1, in_waiting))
           d    == Drain(fr.buffer \o data, fr.dispatched, raising)
       IN  fr' = [fr EXCEPT !.input = SubSeq(fr.input, in_waiting + 1, Len(fr.input)),
                            !.buffer = d.buffer,
                            !.dispatched = d.dispatched]
    /\ UNCHANGED <<connected, running, ota_sessions, nodes, ota_history, workers,
                   accepted, last, out, emitted, rt, policy, temp_files, wire, cv>>

NextFraming ==
    \E in_waiting \in 1..MaxStream, raising \in 0..MaxStream : read_loop(in_waiting, raising)

SpecFraming == InitFraming /\ [][NextFraming]_vars

\* ------------------------------------------------ any-index specification
\* next_idx = data.get('idx', 0) (line 451) is whatever integer the node put
\* in the frame: nothing compares it with the chunks of the image, so it may
\* be negative, repeat or skip ahead.
NodeIdxs == (0 - (MaxIdx + 1))..(MaxIdx + 1)

\* An ota_next frame of node 1 with any index, on a link whose write goes
\* through or fails.
NodeAsksAnyIdx ==
    \E idx \in NodeIdxs, wr \in BOOLEAN :
        /\ handle_ota_next(1, idx, wr)
        /\ UNCHANGED <<rt, wire>>

NextAnyIdx == NodeAsksAnyIdx

\* A session of node 1 for any image, and ota_next frames in any order.
SpecAnyIdx == InitRoundTrip /\ [][NextAnyIdx]_vars

\* ================================================================ claims
SessionAfter(n) == \E s \in ota_sessions' : s.node = n

CreateStep(w) ==
    /\ workers[w].pc \in {"a_create", "m_create"}
    /\ workers'[w].pc \in {"a_send", "m_send"}
OfferStep(w) ==
    /\ workers[w].pc \in {"a_send", "m_send"}
    /\ workers'[w].pc \notin {"a_send", "m_send"}
DiscardStep(w) ==
    /\ workers[w].pc \in {"a_del", "m_del"}
    /\ workers'[w].pc = "done"

\* C1: in every reachable state, whatever the interleaving of the reader, the
\* auto workers and the manual triggers, the session map holds at most one
\* session for each node id.
AtMostOneSessionPerNode ==
    \A s, t \in ota_sessions : s.node = t.node => s = t

\* C1, the case: a trigger has just stored its session for a node that
\* already had one.
SecondTriggerStored ==
    /\ last.op = "create"
    /\ last.had
    /\ HasSession(last.node)

\* C2: a trigger for a node that already has a session creates no session
\* (the session map is left as it was) and sends no ota_offer.
TriggerNeedsNoSession ==
    [][\A w \in Workers :
          /\ CreateStep(w) /\ HasSession(workers[w].node)
                => ota_sessions' = ota_sessions
          /\ OfferStep(w) /\ workers[w].had
                => out' = <<>>]_vars

\* C3: when the ota_offer cannot be sent, the trigger answers failure, and
\* the step that ends it leaves no session for the node, appends no history
\* entry and leaves every node record, its status included, as it was.
SendFailureLeavesNothing ==
    [][\A w \in Workers :
          /\ OfferStep(w) /\ ~out'[1].ok
                => /\ workers'[w].pc \in {"a_del", "m_del"}
                   /\ ota_history' = ota_history
                   /\ nodes' = nodes
          /\ DiscardStep(w)
                => /\ ~SessionAfter(workers[w].node)
                   /\ ota_history' = ota_history
                   /\ nodes' = nodes
                   /\ workers'[w].result = "failed"]_vars

\* C3, the case: a trigger whose offer was not sent has just ended by
\* discarding the session it had stored for a known node.
SendFailureEnded ==
    /\ last.op = "discard"
    /\ last.had
    /\ \E w \in Workers : workers[w].result = "failed"
    /\ ~HasSession(last.node)
    /\ FindNode(nodes, last.node) # 0

\* C4: an ota_accept is honoured only for a session that has not been
\* accepted yet: it then makes the session accepted and sends ota_chunk idx 0;
\* an ota_accept for a session already accepted sends nothing and changes
\* nothing.
AcceptOnlyWhenOffered ==
    [][\A n \in NodeIds :
          (last'.op = "ota_accept" /\ last'.node = n /\ HasSession(n))
              => IF n \notin accepted
                 THEN /\ Len(out') = 1
                      /\ out'[1].frame.type \in {"ota_chunk", "ota_end"}
                 ELSE /\ out' = <<>>
                      /\ UNCHANGED <<ota_sessions, nodes, ota_history, accepted>>]_vars

\* C5: an ota_next for a session that has not been accepted yet causes no
\* ota_chunk and no ota_end to be sent.
NextOnlyWhenTransferring ==
    [][\A n \in NodeIds :
          (last'.op = "ota_next" /\ last'.node = n /\ HasSession(n) /\ n \notin accepted)
              => out' = <<>>]_vars

\* C6: for an ota_next carrying idx >= 0 that finds a session of totalSize
\* bytes and chunk size c, the session map is left as it was and exactly one
\* frame is handed to the link: ota_end{target_node} if idx*c >= totalSize,
\* otherwise ota_chunk{target_node, idx} whose data decodes to the bytes
\* [idx*c, min((idx+1)*c, totalSize)) of the firmware.
NextSendsChunkOrEnd ==
    [][\A n \in NodeIds :
          (last'.op = "ota_next" /\ last'.node = n /\ HasSession(n))
              => LET s     == SessionOf(n)
                     idx   == last'.idx
                     c     == s.chunk_size
                     total == s.size
                 IN  /\ ota_sessions' = ota_sessions
                     /\ Len(out') = 1
                     /\ IF idx * c >= total
                        THEN out'[1].frame = OtaEnd(n)
                        ELSE /\ out'[1].frame.type = "ota_chunk"
                             /\ out'[1].frame.target_node = n
                             /\ out'[1].frame.idx = idx
                             /\ b64decode(out'[1].frame.data) =
                                  SubSeq(s.firmware_data, idx * c + 1,
                                         Min((idx + 1) * c, total))]_vars

\* C6, the case: an ota_next has been answered with the last, shorter chunk
\* of a firmware that is no multiple of the chunk size.
ShortLastChunkSent ==
    /\ last.op = "ota_next"
    /\ last.had
    /\ Len(out) = 1
    /\ out[1].frame.type = "ota_chunk"
    /\ out[1].frame.idx > 0
    /\ Len(b64decode(out[1].frame.data)) \in 1..(ChunkSize - 1)

\* C7: when the node has asked for idx = 0, 1, 2, ... in ascending order and
\* ota_end has arrived, the chunks it decoded, put end to end, are the
\* firmware bytes, none missing, duplicated or out of place.
RoundTrip == rt.ended => rt.data = rt.fw

\* C7, the case: a firmware of two full chunks and a shorter third one has
\* been delivered in three chunks of those sizes, then ota_end.
RoundTripOddSize ==
    /\ rt.ended
    /\ Len(rt.fw) = 2 * ChunkSize + 1
    /\ rt.lens = <<ChunkSize, ChunkSize, 1>>

\* C8: handling an ota_result for a node that has a session, ok or not,
\* leaves no session for that node and emits exactly one completion event,
\* auto_ota_complete for an auto session and ota_complete otherwise.
CompletionEvents(es) ==
    {i \in 1..Len(es) : es[i].name \in {"ota_complete", "auto_ota_complete"}}

ResultUpdatesNode ==
    (/\ last.op = "ota_result"
     /\ last.had
     /\ emitted[1].success
     /\ emitted[1].new_version # "")
        => /\ FindNode(nodes, last.node) # 0
           /\ nodes[FindNode(nodes, last.node)].version = emitted[1].new_version
           /\ nodes[FindNode(nodes, last.node)].status = "online"

\* C9, the case: a successful ota_result has been handled for a node whose
\* trigger had gone through (its history entry exists).
GoodResultHandled ==
    /\ last.op = "ota_result"
    /\ last.had
    /\ emitted[1].success
    /\ emitted[1].new_version = "2.1.0"
    /\ \E i \in 1..Len(ota_history) : ota_history[i].node_id = last.node

\* C10: an ota_result with ok true and a new_version, for a node that has
\* open (initiated) history entries, marks exactly one entry completed, the
\* most recent open entry of that node, and leaves every other entry as it was.
LastOpenEntry(h, n) ==
    CHOOSE i \in OpenEntries(h, n) : \A j \in OpenEntries(h, n) : i >= j

ResultCompletesLatestEntry ==
    [][\A n \in NodeIds :
          (/\ last'.op = "ota_result" /\ last'.node = n
           /\ emitted'[1].success /\ emitted'[1].new_version # ""
           /\ OpenEntries(ota_history, n) # {})
              => ota_history' =
                    [ota_history EXCEPT ![LastOpenEntry(ota_history, n)].status = "completed",
                                        ![LastOpenEntry(ota_history, n)].completed_at = "set"]]_vars

\* C11: an ota_result with ok false, for a node that has a session and open
\* (initiated) history entries, marks the most recent open entry of that node
\* failed, sets its completion timestamp and leaves every node record, its
\* status included, as it was.
FailedResultFailsEntry ==
    [][\A n \in NodeIds :
          (/\ last'.op = "ota_result" /\ last'.node = n
           /\ ~emitted'[1].success
           /\ HasSession(n)
           /\ OpenEntries(ota_history, n) # {})
              => /\ ota_history' =
                      [ota_history EXCEPT ![LastOpenEntry(ota_history, n)].status = "failed",
                                          ![LastOpenEntry(ota_history, n)].completed_at = "set"]
                 /\ nodes' = nodes]_vars

ProtocolOps == {"ota_accept", "ota_next", "ota_result", "ota_error"}

\* C12: an ota_accept, ota_next, ota_result or ota_error naming a node that
\* has no session sends no frame and leaves the node records, the history
\* and the session map as they were.
StrayMessageIgnored ==
    [][\A n \in NodeIds :
          (last'.op \in ProtocolOps /\ last'.node = n /\ ~HasSession(n))
              => /\ out' = <<>>
                 /\ nodes' = nodes
                 /\ ota_history' = ota_history
                 /\ ota_sessions' = ota_sessions]_vars

\* A check for node n has just been handled.
CheckStep(n) == last'.op = "ota_check" /\ last'.node = n

\* Worker threads that leave the idle state in the step.
StartedWorkers == {w \in Workers : workers[w].pc = "idle" /\ workers'[w].pc # "idle"}

\* C13: a check that starts a worker starts exactly one and writes the
\* node's cooldown timestamp, and a check for the same node whose clock
\* reading is less than the cooldown window after that one's starts no
\* worker, writes no timestamp and creates no node: two such checks make
\* one worker and one timestamp write.
CooldownAllowsOneWorker ==
    [][\A n \in NodeIds :
          CheckStep(n) =>
              /\ (started_at[n] >= 0 /\ now - started_at[n] < AUTO_OTA_COOLDOWN)
                    => /\ StartedWorkers = {}
                       /\ last_auto_ota' = last_auto_ota
                       /\ nodes' = nodes
              /\ StartedWorkers # {}
                    => /\ Cardinality(StartedWorkers) = 1
                       /\ last_auto_ota'[n] = now'
                       /\ \A m \in NodeIds \ {n} : last_auto_ota'[m] = last_auto_ota[m]]_vars

\* C13, the case: a check has been turned away by the cooldown of a worker
\* started for the same node at an earlier clock reading inside the window.
SecondCheckTurnedAway ==
    /\ last.op = "ota_check"
    /\ AUTO_OTA_ENABLED
    /\ lookup = NoLookup
    /\ started_at[last.node] >= 0
    /\ now > started_at[last.node]
    /\ now - started_at[last.node] < AUTO_OTA_COOLDOWN
    /\ \E w \in Workers : workers[w].node = last.node
    /\ \E w \in Workers : workers[w].pc = "idle"

\* C14: a check during which the manifest fetch fails creates no session and
\* no history entry, and records the cooldown timestamp of its node.
ManifestFailureStillCoolsDown ==
    [][\A n \in NodeIds :
          (CheckStep(n) /\ lookup'.called /\ lookup'.fetched /\ lookup'.manifest = None)
              => /\ ota_sessions' = ota_sessions
                 /\ ota_history' = ota_history
                 /\ last_auto_ota'[n] >= now]_vars

\* C15: a check handled while auto-OTA is disabled, or for a role the
\* manifest has no asset for, or reporting a version the manifest's version
\* is not newer than, starts no worker, creates no node, writes no cooldown
\* timestamp, sends no frame and creates no session and no history entry:
\* a check either leaves all of these as they were, or is no check made under
\* one of the three conditions.
PolicyNoOp ==
    [][\A n \in NodeIds :
          CheckStep(n) =>
              \/ /\ workers' = workers
                 /\ nodes' = nodes
                 /\ last_auto_ota' = last_auto_ota
                 /\ out' = <<>>
                 /\ ota_sessions' = ota_sessions
                 /\ ota_history' = ota_history
              \/ \A role \in Roles, fw \in ReportedVersions,
                    ok \in BOOLEAN, d \in FetchTimes :
                    ~ /\ \/ ~AUTO_OTA_ENABLED
                         \/ /\ lookup'.called
                            /\ lookup'.manifest # None
                            /\ \/ role \notin lookup'.manifest.assets
                               \/ ~compare_versions(VersionParts(fw),
                                                    VersionParts(lookup'.manifest.version))
                      /\ handle_ota_check_auto(n, role, fw, ok, d)]_vars

\* C15, the case: a check has been answered from a manifest that was there,
\* and nothing was started: no worker runs, no node is known, no cooldown
\* timestamp is written.
CheckFoundNothingToDo ==
    /\ last.op = "ota_check"
    /\ lookup.called
    /\ lookup.manifest # None
    /\ \A w \in Workers : workers[w].pc = "idle"
    /\ nodes = <<>>
    /\ \A n \in NodeIds : last_auto_ota[n] = 0

\* The digest of the downloaded file is the expected one, whatever the case
\* of the letters.
SameDigest(content, sha256_hash) == hexdigest(content).of = sha256_hash.of

FailureEvents(es) == {i \in 1..Len(es) : es[i].name = "auto_ota_failed"}

\* C16: a worker that was given a digest stores a session and sends an
\* ota_offer only when the digest of its downloaded file is the given one,
\* whatever the case of the letters, and a file read back with that digest
\* lets the worker go on to its session; when the file is read back and they
\* differ, its verification step ends the worker with no session stored, no
\* frame sent, no history entry written, one failure event emitted and its
\* temporary file removed.
Sha256Gate ==
    [][\A w \in Workers :
          workers[w].sha256_hash.present =>
              /\ (workers[w].pc = "a_verify" /\ workers'[w].pc = "a_create")
                    => SameDigest(workers[w].fw, workers[w].sha256_hash)
              /\ (CreateStep(w) \/ OfferStep(w))
                    => SameDigest(workers[w].fw, workers[w].sha256_hash)
              /\ (/\ SameDigest(workers[w].fw, workers[w].sha256_hash)
                  /\ auto_verify(w, TRUE))
                    => workers'[w].pc = "a_create"
              /\ (/\ ~SameDigest(workers[w].fw, workers[w].sha256_hash)
                  /\ auto_verify(w, TRUE))
                    => /\ workers'[w].pc = "done"
                       /\ ota_sessions' = ota_sessions
                       /\ out' = <<>>
                       /\ ota_history' = ota_history
                       /\ Cardinality(FailureEvents(emitted')) = 1
                       /\ w \notin temp_files']_vars

\* C16, the case: a verification has just failed on a corrupted download and
\* the worker has ended.
MismatchBlocked ==
    /\ last.op = "verify"
    /\ emitted = <<Event("auto_ota_failed", last.node)>>
    /\ \E w \in Workers : workers[w].pc = "done" /\ workers[w].result = "failed"
    /\ ~HasSession(last.node)

\* C17: no temporary file made by a worker that has ended still exists.
NoTempFileLeftBehind ==
    \A w \in Workers : workers[w].pc = "done" => w \notin temp_files

\* A fetch_manifest call was made in the step and it used the network.
FetchStep == lookup'.called /\ lookup'.fetched

\* The step is a lookup whose fetch failed, from a request or from a check.
FailedFetchStep ==
    \E d \in FetchTimes :
        \/ get_manifest(FALSE, d)
        \/ refresh_manifest(FALSE, d)
        \/ \E n \in NodeIds, role \in Roles, fw \in ReportedVersions :
              handle_ota_check_auto(n, role, fw, FALSE, d)

\* C20: a lookup whose fetch fails answers absent for every role, and a
\* lookup is answered from the cache, without a fetch, only while that cache
\* is younger than the time a manifest is reused: an expired manifest answers
\* no lookup, the failed one or a later one.
FetchFailureGivesAbsent ==
    [][/\ (FetchStep /\ FailedFetchStep)
            => /\ lookup'.manifest = None
               /\ \A role \in Roles :
                     get_firmware_url_for_role(lookup'.manifest, role) = Absent
       /\ (lookup'.called /\ lookup'.manifest # None)
            => \/ lookup'.fetched /\ manifest_last_fetch' = now'
               \/ /\ ~lookup'.fetched
                  /\ lookup'.manifest = manifest_cache
                  /\ now - manifest_last_fetch < ManifestTtl]_vars

\* C20, the case: a fetch has just failed while an expired manifest sat in
\* the cache, and the lookup was answered with nothing.
FetchFailedOverStaleCache ==
    /\ lookup.called
    /\ lookup.fetched
    /\ lookup.manifest = None
    /\ manifest_cache = RemoteManifest
    /\ now - manifest_last_fetch >= ManifestTtl

\* The positions, within the shorter length, at which two versions differ.
DifferingPairs(c, l) == {i \in 1..Min(Len(c), Len(l)) : c[i] # l[i]}

\* The first differing pair decides, for latest if its component is larger;
\* no differing pair is not newer.
NewerByFirstDifference(c, l) ==
    /\ DifferingPairs(c, l) # {}
    /\ LET k == CHOOSE i \in DifferingPairs(c, l) :
                    \A j \in DifferingPairs(c, l) : i <= j
       IN  l[k] > c[k]

\* C18: for dotted-numeric versions compare_versions(current, latest) is
\* true exactly when the first pair of components that differ, among the
\* pairs up to the shorter length, has latest's the larger; so it is true for
\* 2.1.0 against 2.1.1, false for 2.1.1 against 2.1.0 and false for 2.1
\* against 2.1.0.
IsNewerByFirstDifference ==
    /\ (cv.done /\ Numeric(cv.current) /\ Numeric(cv.latest))
          => cv.result = NewerByFirstDifference(cv.current, cv.latest)
    /\ (cv.done /\ cv.current = <<2, 1, 0>> /\ cv.latest = <<2, 1, 1>>) => cv.result
    /\ (cv.done /\ cv.current = <<2, 1, 1>> /\ cv.latest = <<2, 1, 0>>) => ~cv.result
    /\ (cv.done /\ cv.current = <<2, 1>> /\ cv.latest = <<2, 1, 0>>) => ~cv.result

\* C18, the case: 2.1 has been compared with 2.1.0 and found not older.
PrefixComparedNotNewer ==
    /\ cv.done
    /\ cv.current = <<2, 1>>
    /\ cv.latest = <<2, 1, 0>>
    /\ ~cv.result

\* The frames of a whole transfer of a version to a node: the offer, the
\* chunks in ascending order, ota_end.
NumChunks(fw) == (Len(fw) + ChunkSize - 1) \div ChunkSize

ExpectedFrames(n, version) ==
    LET fw == FirmwareOf(version)
    IN  <<OtaOffer(n, version, Len(fw))>>
        \o [i \in 1..NumChunks(fw) |->
               OtaChunk(n, i - 1,
                        b64encode(SubSeq(fw, (i - 1) * ChunkSize + 1,
                                         Min(i * ChunkSize, Len(fw)))))]
        \o <<OtaEnd(n)>>

IsPrefix(a, b) == Len(a) <= Len(b) /\ SubSeq(b, 1, Len(a)) = a

\* The node has answered every frame up to ota_end and the worker is done.
RunOver ==
    /\ wire.frames # <<>>
    /\ wire.answered = Len(wire.frames)
    /\ wire.frames[Len(wire.frames)].type = "ota_end"
    /\ \A w \in Workers : workers[w].pc \in {"idle", "done"}

\* C19: in a run where a node reports 2.0.0, the manifest offers 2.1.0 with
\* its digest, the link stays up and the node answers every frame, the
\* frames written are, in this order, ota_offer of 2.1.0, chunk 0, the other
\* chunks and ota_end, there is never more than one session, and when the
\* run is over the node's record shows 2.1.0 and online, the one history
\* entry is completed and no session is left.
EndToEndRun ==
    \A n \in NodeIds :
        started_at[n] >= 0 =>
            /\ IsPrefix(wire.frames, ExpectedFrames(n, RemoteManifest.version))
            /\ Cardinality(ota_sessions) <= 1
            /\ RunOver =>
                  /\ nodes = <<[id |-> n, version |-> RemoteManifest.version,
                                status |-> "online"]>>
                  /\ Len(ota_history) = 1
                  /\ ota_history[1].status = "completed"
                  /\ ota_sessions = {}

\* The session stored for node n is not the same after the step: it has been
\* removed, or another one stored in its place.
SessionLost(n) ==
    /\ HasSession(n)
    /\ {s \in ota_sessions' : s.node = n} # {s \in ota_sessions : s.node = n}

\* C21 as stated: once a session exists for a node it is removed or replaced
\* only by the handling of an ota_result or ota_error of that node.
SessionEndsOnlyByTerminal ==
    [][\A n \in NodeIds :
          SessionLost(n) => last'.node = n /\ last'.op \in {"ota_result", "ota_error"}]_vars

\* C21, amended: once a session exists for a node it is removed or replaced
\* only by the handling of an ota_result or ota_error of that node, by a
\* trigger for that node (which stores its own session, and deletes the
\* node's session when its ota_offer cannot be sent), or by a new connection
\* to the gateway, which starts with an empty session map; the passage of
\* time, a failed chunk send and disconnect() leave it as it is.
SessionEndsOnlyByTerminalOrTrigger ==
    [][\A n \in NodeIds :
          SessionLost(n) =>
              \/ /\ last'.node = n
                 /\ last'.op \in {"ota_result", "ota_error", "create", "discard"}
              \/ last'.op = "connect"]_vars

\* C21, the case: the link has been closed on a session in transfer, time
\* has passed to the end of the clock, and the session is still there.
SessionOutlivesLink ==
    /\ ~connected
    /\ last.op = "tick"
    /\ now = MaxTime
    /\ \E n \in accepted : HasSession(n)

\* The chunk of index idx of the image of a version, as base64.
ChunkOfVersion(version, idx) ==
    b64encode(PySlice(FirmwareOf(version), idx * ChunkSize,
                      Min(idx * ChunkSize + ChunkSize, Len(FirmwareOf(version)))))

\* C22: whatever the interleaving of the triggers for a node, every ota_chunk
\* sent to the node once an ota_offer has been written for it is a slice of
\* the firmware whose version and size the most recent of these offers
\* announced.
ChunksFollowLastOffer ==
    [][\A n \in NodeIds :
          /\ last'.node = n
          /\ last'.op \in {"ota_accept", "ota_next"}
          /\ out' # <<>>
          /\ out'[1].frame.type = "ota_chunk"
          /\ out'[1].ok
          /\ OffersTo(n) # <<>>
          => LET offer == OffersTo(n)[Len(OffersTo(n))]
             IN  /\ offer.size = Len(FirmwareOf(offer.version))
                 /\ out'[1].frame.data = ChunkOfVersion(offer.version, out'[1].frame.idx)]_vars

\* C23: no update is lost between the reader thread and the trigger worker:
\* however the handling of the node's ota_accept, ota_next and ota_result
\* falls between the worker's steps after its ota_offer, once the worker has
\* finished and the ota_result (ok, with the new version) of its session has
\* been handled, the node is online and the history entry of the trigger is
\* completed.
NoLostUpdate ==
    RunOver =>
        /\ \A i \in 1..Len(nodes) : nodes[i].status = "online"
        /\ \A e \in 1..Len(ota_history) : ota_history[e].status = "completed"
        /\ ota_history # <<>>

ErrorEvents(es) == SelectSeq(es, LAMBDA e : e.name \in {"ota_error", "auto_ota_error"})

SessionLeft(n) ==
    {[firmware_data |-> s.firmware_data, version |-> s.version, size |-> s.size,
      chunk_size |-> s.chunk_size] : s \in {t \in ota_sessions : t.node = n}}

HistoryLeft(n) ==
    LET h == SelectSeq(ota_history, LAMBDA e : e.node_id = n)
    IN  [i \in 1..Len(h) |->
            [version |-> h[i].version, status |-> h[i].status,
             completed_at |-> h[i].completed_at]]

OffersLeft(n) ==
    [i \in 1..Len(OffersTo(n)) |->
        [type |-> OffersTo(n)[i].type, version |-> OffersTo(n)[i].version,
         size |-> OffersTo(n)[i].size, chunk |-> OffersTo(n)[i].chunk]]

BothPathsDone ==
    workers[AutoThread].pc = "done" /\ workers[ManualThread].pc = "done"

\* C25: run from the same starting state (node known, same image and
\* version, same link, same existing session), the auto trigger path and the
\* manual trigger path leave the same session for the node, the same history
\* entries but for the initiator, the same node status, and have sent the
\* same ota_offer.
TriggerPathsAgree ==
    BothPathsDone =>
        /\ SessionLeft(AutoNode) = SessionLeft(ManualNode)
        /\ HistoryLeft(AutoNode) = HistoryLeft(ManualNode)
        /\ nodes[AutoNode].status = nodes[ManualNode].status
        /\ OffersLeft(AutoNode) = OffersLeft(ManualNode)

\* The steps in which the reader thread has handled a line that is JSON.
FrameOps ==
    {"ota_accept", "ota_next", "ota_next_null", "ota_result", "ota_error",
     "auto_begin", "unrouted", "non_object"}

GatewayMessages(es) == SelectSeq(es, LAMBDA e : e.name = "gateway_message")

\* C26: every inbound frame that is JSON is mirrored to the event sink as
\* exactly one gateway_message event, emitted after whatever its handler
\* emitted, whatever its type and whatever the handler did, also when the
\* handler fails on a field value; a frame of unknown type changes no state.
EveryFrameMirroredOnce ==
    [][last'.op \in FrameOps =>
          /\ Len(GatewayMessages(emitted')) = 1
          /\ emitted'[Len(emitted')].name = "gateway_message"
          /\ last'.op = "unrouted" =>
                UNCHANGED <<connected, running, ota_sessions, nodes, ota_history,
                            workers, policy, temp_files>>]_vars

\* The bytes read so far.
Consumed == SubSeq(fr.whole, 1, Len(fr.whole) - Len(fr.input))

\* The newline-terminated lines of a text, in order, and what follows its
\* last newline.
RECURSIVE CompleteLines(_)
CompleteLines(text) ==
    IF ~HasNewline(text) THEN <<>>
    ELSE <<SubSeq(text, 1, FirstNewline(text) - 1)>>
         \o CompleteLines(SubSeq(text, FirstNewline(text) + 1, Len(text)))

RECURSIVE PartialLine(_)
PartialLine(text) ==
    IF ~HasNewline(text) THEN text
    ELSE PartialLine(SubSeq(text, FirstNewline(text) + 1, Len(text)))

TrimmedLines(text) ==
    SelectSeq([i \in 1..Len(CompleteLines(text)) |-> strip(CompleteLines(text)[i])],
              LAMBDA l : l # <<>>)

\* C27: however the stream is cut into reads, the frames dispatched are the
\* non-empty trimmed newline-terminated lines of what has been read, in
\* order and once each, and the partial line that follows the last newline
\* is held in the buffer.
FramingIgnoresReads ==
    /\ fr.dispatched = TrimmedLines(decode(Consumed))
    /\ PartialLine(fr.buffer) = PartialLine(decode(Consumed))

\* C28: a lookup made while a manifest is cached and younger than the time a
\* manifest is reused makes no fetch, answers with the cached manifest and
\* leaves the cache as it is; a lookup made when the cache is empty or has
\* reached that age, and every lookup of a manual refresh, whatever the age
\* of the cache, makes a fetch.
CacheReusedWhileYoung ==
    [][lookup'.called =>
          LET young   == manifest_cache # None /\ now - manifest_last_fetch < ManifestTtl
              refresh == last'.op = "refresh_manifest"
          IN  /\ young /\ ~refresh
                    => /\ ~lookup'.fetched
                       /\ lookup'.manifest = manifest_cache
                       /\ UNCHANGED <<manifest_cache, manifest_last_fetch>>
              /\ ~young \/ refresh => lookup'.fetched]_vars

\* C28, the case: a lookup has just been answered from a cache that was
\* fetched at an earlier clock reading, without a fetch.
CachedManifestReused ==
    /\ lookup.called
    /\ ~lookup.fetched
    /\ lookup.manifest = RemoteManifest
    /\ manifest_cache = RemoteManifest
    /\ 0 < now - manifest_last_fetch
    /\ now - manifest_last_fetch < ManifestTtl

\* C29: the history is append-only: no step shortens it; an entry, once
\* appended, keeps its id, node id, version, initiator and creation
\* timestamp; its status changes only from initiated, to completed or
\* failed; and its completion timestamp is set only while it has none.
HistoryAppendOnly ==
    [][/\ Len(ota_history') >= Len(ota_history)
       /\ \A i \in 1..Len(ota_history) :
             LET before == ota_history[i]
                 after  == ota_history'[i]
             IN  /\ [after EXCEPT !.status = before.status,
                                  !.completed_at = before.completed_at] = before
                 /\ after.status # before.status
                       => /\ before.status = "initiated"
                          /\ after.status \in {"completed", "failed"}
                 /\ after.completed_at # before.completed_at
                       => /\ before.completed_at = "none"
                          /\ before.status = "initiated"]_vars

\* C29, the case: two triggers of a node have been recorded and both
\* entries completed by the ota_results handled since, the second just now.
TwoEntriesCompleted ==
    /\ last.op = "ota_result"
    /\ Len(ota_history) = 2
    /\ \A i \in 1..2 :
          /\ ota_history[i].node_id = last.node
          /\ ota_history[i].status = "completed"
          /\ ota_history[i].completed_at = "set"

\* C30: the handling of an ota_accept, ota_next, ota_result or ota_error of
\* node a leaves the session, the node record and the history entries of
\* every other node as they were, and every frame it sends is addressed to a.
HandlersKeepToTheirNode ==
    [][\A a \in NodeIds :
          last'.op \in ProtocolOps /\ last'.node = a =>
              /\ {s \in ota_sessions' : s.node # a} = {s \in ota_sessions : s.node # a}
              /\ Len(nodes') = Len(nodes)
              /\ \A i \in 1..Len(nodes) : nodes[i].id # a => nodes'[i] = nodes[i]
              /\ Len(ota_history') = Len(ota_history)
              /\ \A i \in 1..Len(ota_history) :
                    ota_history[i].node_id # a => ota_history'[i] = ota_history[i]
              /\ \A i \in 1..Len(out') : out'[i].frame.target_node = a]_vars

\* C30, the case: the ota_result of one node has just been handled, its
\* entry completed and its record set online, while another node is in the
\* middle of its own update: session, open entry, status updating.
ResultBesideOtherUpdate ==
    /\ last.op = "ota_result"
    /\ last.had
    /\ \E i \in 1..Len(ota_history) :
          ota_history[i].node_id = last.node /\ ota_history[i].status = "completed"
    /\ \E b \in NodeIds \ {last.node} :
          /\ HasSession(b)
          /\ OpenEntries(ota_history, b) # {}
          /\ FindNode(nodes, b) # 0
          /\ nodes[FindNode(nodes, b)].status = "updating"

\* C31 as stated: for every pair of version strings, those taking the
\* text-inequality fallback included, compare_versions is never true in both
\* directions.
IsNewerAsymmetric ==
    cv.done => ~(cv.result /\ compare_versions(cv.latest, cv.current))

\* C31, amended: for two dotted-numeric versions compare_versions is never
\* true in both directions; when either has a non-numeric component it gives
\* the same answer in both directions, true exactly when the two texts
\* differ.
IsNewerAsymmetricOnNumbers ==
    /\ (cv.done /\ Numeric(cv.current) /\ Numeric(cv.latest))
          => ~(cv.result /\ compare_versions(cv.latest, cv.current))
    /\ (cv.done /\ ~(Numeric(cv.current) /\ Numeric(cv.latest)))
          => /\ cv.result = compare_versions(cv.latest, cv.current)
             /\ cv.result = (cv.current # cv.latest)

\* C31, the case: a numeric version has been found newer than another of the
\* same length, and the comparison the other way round is false.
NewerOneWayOnly ==
    /\ cv.done
    /\ Numeric(cv.current)
    /\ Numeric(cv.latest)
    /\ Len(cv.current) = Len(cv.latest)
    /\ cv.result
    /\ ~compare_versions(cv.latest, cv.current)

\* C32: every ota_chunk frame written to the link carries at least 1 and at
\* most chunk_size bytes of firmware, whatever integer idx the ota_next frame
\* holds (negative, repeated or skipping ahead): no ota_chunk with empty data
\* is sent.
ChunkNeverEmpty ==
    \A i \in 1..Len(out) :
        (out[i].ok /\ out[i].frame.type = "ota_chunk")
            => Len(b64decode(out[i].frame.data)) \in 1..ChunkSize

\* C33: whatever the interleaving of the auto-OTA workers and the manual
\* triggers, no two entries of ota_history carry the same id, and the id of
\* each entry is its 1-based position in the list.
HistoryIdsUnique ==
    /\ \A i, j \in 1..Len(ota_history) :
          ota_history[i].id = ota_history[j].id => i = j
    /\ \A i \in 1..Len(ota_history) : ota_history[i].id = i

====
